---- MODULE Spec2Model ----
(***************************************************************************)
(* Model of the AutoWeave genetic deduplication store                      *)
(* (scripts/intelligent_deduplication.py) and of the reconstruction of a   *)
(* file from its genes (scripts/genetic-reconstruction.py).                *)
(*                                                                         *)
(* Text is a string.  The SQLite database is two tables of rows; a         *)
(* connection's uncommitted writes live in a working copy that Commit      *)
(* publishes and a dropped connection discards.  Each register_gene call   *)
(* is a process that runs its statements one at a time, so calls of        *)
(* different processes interleave between statements.                      *)
(*                                                                         *)
(* The specifications share the variables:                                 *)
(*   Spec             concurrent register_gene calls;                      *)
(*   LedgerSpec       the same calls, every gene with an id of its own;    *)
(*   QuerySpec        one registering client next to the queries           *)
(*                    is_duplicate, get_gene_history and                   *)
(*                    get_duplication_report;                              *)
(*   DetectSpec       calculate_content_hash and detect_mutations on a     *)
(*                    pair of fragments;                                   *)
(*   ReconstructSpec  reconstruct_file on a table of genes;                *)
(*   ReportSpec       get_duplication_report and _generate_recommendations *)
(*                    on stores of up to 52 fingerprints;                  *)
(*   HistorySpec      get_gene_history on a store with unreadable          *)
(*                    metadata;                                            *)
(*   CliSpec          the command line of genetic-reconstruction.py.       *)
(***************************************************************************)
EXTENDS Integers, Sequences, FiniteSets, TLC

(***************************************************************************)
(* Bounds of the model.                                                    *)
(***************************************************************************)
MaxCalls == 3

\* Concurrent callers of register_gene, each with a connection of its own.
Procs == {"p1", "p2"}
NoProc == "none"
ProcBefore(p, q) == p = "p1" /\ q = "p2"
NULL == "NULL"

(***************************************************************************)
(* Text helpers: Python's str.split('\n'), str.strip(), str.split(),       *)
(* str.startswith(), str.join(), str.lower().  A text is a string; its     *)
(* i-th character is the one-character string Char(s, i).                  *)
(***************************************************************************)
NL == "\n"
Whitespace == {" ", "\t", "\n"}

Char(s, i) == SubSeq(s, i, i)

RECURSIVE SplitOn(_, _)
\* content.split(sep): the pieces between occurrences of the character sep.
SplitOn(s, sep) ==
    IF \A i \in 1..Len(s) : Char(s, i) # sep
    THEN <<s>>
    ELSE LET k == CHOOSE i \in 1..Len(s) :
                      Char(s, i) = sep /\ \A j \in 1..(i - 1) : Char(s, j) # sep
         IN  <<SubSeq(s, 1, k - 1)>> \o SplitOn(SubSeq(s, k + 1, Len(s)), sep)

RECURSIVE LStrip(_)
LStrip(s) ==
    IF s # "" /\ Char(s, 1) \in Whitespace
    THEN LStrip(SubSeq(s, 2, Len(s)))
    ELSE s

RECURSIVE RStrip(_)
RStrip(s) ==
    IF s # "" /\ Char(s, Len(s)) \in Whitespace
    THEN RStrip(SubSeq(s, 1, Len(s) - 1))
    ELSE s

\* line.strip()
Strip(s) == RStrip(LStrip(s))

\* s.startswith(prefix)
StartsWith(s, prefix) ==
    Len(s) >= Len(prefix) /\ SubSeq(s, 1, Len(prefix)) = prefix

CommentPrefixes == {"#", "//", "/*", "*"}

RECURSIVE Words(_)
\* s.split(): the maximal runs of non-whitespace characters.
Words(s) ==
    LET t == LStrip(s)
    IN  IF t = ""
        THEN <<>>
        ELSE LET n == IF \E i \in 1..Len(t) : Char(t, i) \in Whitespace
                      THEN (CHOOSE i \in 1..Len(t) :
                                /\ Char(t, i) \in Whitespace
                                /\ \A j \in 1..(i - 1) : Char(t, j) \notin Whitespace) - 1
                      ELSE Len(t)
             IN  <<SubSeq(t, 1, n)>> \o Words(SubSeq(t, n + 1, Len(t)))

RECURSIVE Join(_, _)
\* sep.join(parts)
Join(parts, sep) ==
    IF parts = <<>> THEN ""
    ELSE IF Len(parts) = 1 THEN parts[1]
    ELSE parts[1] \o sep \o Join(Tail(parts), sep)

UpperCase == "ABCDEFGHIJKLMNOPQRSTUVWXYZ"
LowerCase == "abcdefghijklmnopqrstuvwxyz"

LowerChar(c) ==
    IF \E i \in 1..Len(UpperCase) : Char(UpperCase, i) = c
    THEN Char(LowerCase, CHOOSE i \in 1..Len(UpperCase) : Char(UpperCase, i) = c)
    ELSE c

RECURSIVE Lower(_)
\* name.lower()
Lower(s) ==
    IF s = "" THEN ""
    ELSE LowerChar(Char(s, 1)) \o Lower(SubSeq(s, 2, Len(s)))

RECURSIVE NormalizeLines(_)
\* The loop of _normalize_content over the split lines.
NormalizeLines(lines) ==
    IF lines = <<>> THEN <<>>
    ELSE LET clean_line == Strip(Head(lines))
             rest == NormalizeLines(Tail(lines))
         IN  IF clean_line = ""
                \/ \E pre \in CommentPrefixes : StartsWith(clean_line, pre)
             THEN rest
             ELSE <<Join(Words(clean_line), " ")>> \o rest

\* Mutant: only the ends of the content are stripped.
_normalize_content_StripOnly(content) == Strip(content)

_normalize_content(content) == Join(NormalizeLines(SplitOn(content, NL)), NL)

\* hashlib.sha256(...).hexdigest(): a digest, taken to be collision-free.
sha256(s) == [sha256 |-> s]

calculate_content_hash(content, gene_type, name) ==
    sha256(_normalize_content(content) \o "::" \o gene_type \o "::" \o Lower(name))

(***************************************************************************)
(* Inputs: gene_data records, gene ids and file paths.                     *)
(***************************************************************************)
GeneA == [content |-> "a b", type |-> "function", name |-> "Sum"]
\* the same fragment with other formatting: leading and trailing whitespace,
\* a run of internal whitespace, a blank line and a comment line
GeneA2 == [content |-> " a \tb \n\n#x", type |-> "function", name |-> "Sum"]
\* another fragment
GeneB == [content |-> "a c", type |-> "function", name |-> "sum"]

Genes == {GeneA, GeneA2, GeneB}
GeneIds == {"G-1", "G-2"}
Paths == {"a.js", "b.js"}

\* content_hash of each input, as register_gene computes it
ContentHash == [g \in Genes |-> calculate_content_hash(g.content, g.type, g.name)]
HashOf(g) == ContentHash[g]
Hashes == {HashOf(g) : g \in Genes}

(***************************************************************************)
(* State.                                                                  *)
(***************************************************************************)
VARIABLES
    content_hashes,  \* committed rows of table content_hashes
    gene_evolution,  \* committed rows of table gene_evolution
    writer,          \* the connection holding the database write lock
    tx_hashes,       \* the writer's working copy of content_hashes
    tx_evolution,    \* the writer's working copy of gene_evolution
    pc,              \* per process: position inside register_gene
    call,            \* per process: arguments and content_hash of its call
    existing,        \* per process: what cursor.fetchone() returned
    ret,             \* per process: how its last call ended
    clock,           \* the time datetime.now() returns
    ncalls,          \* number of register_gene calls started
    okCount,         \* history: committed registrations per content_hash
    okFirst,         \* history: gene id of the first committed registration
    okPairs,         \* history: <<gene id, file path>> of committed registrations
    answer,          \* what the last query (is_duplicate, history, report) returned
    old_gene,        \* detect_mutations: its first argument
    new_gene,        \* detect_mutations: its second argument
    fingerprint,     \* the content hashes calculate_content_hash returned
    analysis,        \* the dict detect_mutations returned
    genes,           \* rows of table genes of the genetic database
    reconstruction,  \* the dict reconstruct_file returned
    argv,            \* sys.argv of a run of genetic-reconstruction.py
    stdout,          \* the JSON objects the run has printed
    exit_status      \* the status the run exited with

store == <<content_hashes, gene_evolution, writer, tx_hashes, tx_evolution,
           pc, call, existing, ret, clock, ncalls, okCount, okFirst, okPairs>>
classifier == <<old_gene, new_gene, fingerprint, analysis>>
cli == <<argv, stdout, exit_status>>
reconstructor == <<genes, reconstruction, cli>>

vars == <<store, answer, classifier, reconstructor>>

db == <<content_hashes, gene_evolution>>
txvars == <<writer, tx_hashes, tx_evolution>>
history == <<okCount, okFirst, okPairs>>
\* what register_gene never touches
elsewhere == <<answer, classifier, reconstructor>>

NoCall == [gene_id |-> NULL]
NoRet == [status |-> "none"]

\* datetime.now(), on a coarse clock that advances with every commit: the
\* statements of one transaction read the same time, and a later transaction
\* reads a later time.
Now == clock

\* No query has been asked, nothing classified, nothing reconstructed.
NoAnswer == [op |-> "none"]
NoGene == [name |-> NULL]
Nothing == <<>>
\* The script has not been run, or its run has not ended.
NotExited == -1

\* No register_gene call has started and no connection is open.
NoCalls ==
    /\ writer = NoProc
    /\ tx_hashes = {}
    /\ tx_evolution = {}
    /\ pc = [p \in Procs |-> "idle"]
    /\ call = [p \in Procs |-> NoCall]
    /\ existing = [p \in Procs |-> <<>>]
    /\ ret = [p \in Procs |-> NoRet]
    /\ clock = 1
    /\ ncalls = 0
    /\ okCount = [h \in Hashes |-> 0]
    /\ okFirst = [h \in Hashes |-> NULL]
    /\ okPairs = [h \in Hashes |-> {}]

\* The deduplication database right after init_database: both tables empty.
StoreInit ==
    /\ content_hashes = {}
    /\ gene_evolution = {}
    /\ NoCalls

ClassifierIdle ==
    /\ old_gene = NoGene
    /\ new_gene = NoGene
    /\ fingerprint = Nothing
    /\ analysis = Nothing

CliIdle ==
    /\ argv = <<>>
    /\ stdout = <<>>
    /\ exit_status = NotExited

ReconstructorIdle ==
    /\ genes = {}
    /\ reconstruction = Nothing
    /\ CliIdle

Init ==
    /\ StoreInit
    /\ answer = NoAnswer
    /\ ClassifierIdle
    /\ ReconstructorIdle

(***************************************************************************)
(* Rows and results built by register_gene.                                *)
(***************************************************************************)
\* existing_paths after "if file_path not in existing_paths: append"
ExistingPaths(file_paths, file_path) ==
    IF \E i \in 1..Len(file_paths) : file_paths[i] = file_path
    THEN file_paths
    ELSE Append(file_paths, file_path)

\* Mutant: the UPDATE leaves occurrence_count as it is.
UpdatedHashRow_NoIncrement(row, last_seen, existing_paths) ==
    [row EXCEPT !.last_seen = last_seen, !.file_paths = existing_paths]

\* UPDATE content_hashes SET last_seen, occurrence_count + 1, file_paths
UpdatedHashRow(row, last_seen, existing_paths) ==
    [row EXCEPT !.last_seen = last_seen,
                !.occurrence_count = @ + 1,
                !.file_paths = existing_paths]

\* gene_data.get('complexity', 0)
Complexity(gene_data) ==
    IF "complexity" \in DOMAIN gene_data THEN gene_data.complexity ELSE 0

\* INSERT INTO content_hashes: occurrence_count takes the column's DEFAULT 1
NewHashRow(content_hash, first_seen, last_seen, gene_id, file_path, gene_data) ==
    [content_hash |-> content_hash,
     first_seen |-> first_seen,
     last_seen |-> last_seen,
     occurrence_count |-> 1,
     representative_gene_id |-> gene_id,
     file_paths |-> <<file_path>>,
     metadata |-> [complexity |-> Complexity(gene_data)]]

\* Mutant: the duplication record does not name the representative.
DuplicationRecord_NoParent(gene_id, content_hash, parent, timestamp, existing_paths, file_path) ==
    [gene_id |-> gene_id,
     content_hash |-> content_hash,
     parent_gene_id |-> NULL,
     evolution_type |-> "duplication",
     confidence_score |-> 95,
     timestamp |-> timestamp,
     metadata |-> [original_file |-> existing_paths[1],
                   duplicate_file |-> file_path]]

\* the row of INSERT OR REPLACE INTO gene_evolution ... 'duplication', 0.95
\* (confidence_score is kept in hundredths)
DuplicationRecord(gene_id, content_hash, parent, timestamp, existing_paths, file_path) ==
    [gene_id |-> gene_id,
     content_hash |-> content_hash,
     parent_gene_id |-> parent,
     evolution_type |-> "duplication",
     confidence_score |-> 95,
     timestamp |-> timestamp,
     metadata |-> [original_file |-> existing_paths[1],
                   duplicate_file |-> file_path]]

\* the row of INSERT INTO gene_evolution ... 'creation', 1.0
CreationRecord(gene_id, content_hash, timestamp, file_path, gene_data) ==
    [gene_id |-> gene_id,
     content_hash |-> content_hash,
     parent_gene_id |-> NULL,
     evolution_type |-> "creation",
     confidence_score |-> 100,
     timestamp |-> timestamp,
     metadata |-> [file |-> file_path, size |-> Len(gene_data.content)]]

\* Mutant: content_hashes is declared without its primary key.
HashKeyTaken_NoPrimaryKey(table, content_hash) == FALSE

\* PRIMARY KEY content_hash of content_hashes: does the key already exist?
HashKeyTaken(table, content_hash) ==
    \E r \in table : r.content_hash = content_hash

\* PRIMARY KEY gene_id of gene_evolution: does the key already exist?
GeneKeyTaken(table, gene_id) ==
    \E r \in table : r.gene_id = gene_id

\* INSERT OR REPLACE: a row with the same primary key is deleted first.
InsertOrReplace(table, row) ==
    {r \in table : r.gene_id # row.gene_id} \cup {row}

\* the dict returned on the duplication branch
LinkedResult(existing_row) ==
    [is_duplicate |-> TRUE,
     representative_gene_id |-> existing_row.representative_gene_id,
     occurrence_count |-> existing_row.occurrence_count + 1,
     action |-> "linked_to_existing"]

\* the dict returned on the creation branch
CreatedResult(gene_id) ==
    [is_duplicate |-> FALSE,
     gene_id |-> gene_id,
     action |-> "created_new"]

\* How a call ended, with what the call was about.
Summary(c, seen) ==
    [gene_id |-> c.gene_id, content_hash |-> c.content_hash,
     found |-> seen # <<>>]

\* Mutant: the connection is in autocommit mode (isolation_level=None), so
\* every statement is committed as it runs.
Uncommitted_Autocommit(table, written) == written

\* sqlite3.connect with the default isolation level: what a statement wrote
\* stays in the connection's open transaction, and the committed table is
\* what it was, until conn.commit().
Uncommitted(table, written) == table

Raised(error, at, c) ==
    [status |-> "raised", error |-> error, at |-> at, call |-> c]

Returned(result, c) == [status |-> "returned", result |-> result, call |-> c]

\* Calls are interchangeable: a new call takes the first free process.
FirstIdle(p) == \A q \in Procs : pc[q] = "idle" => ~ProcBefore(q, p)

(***************************************************************************)
(* register_gene, one statement per action.                                *)
(***************************************************************************)
\* The call starts: the hash is computed, sqlite3.connect succeeds, and
\* SELECT ... FROM content_hashes WHERE content_hash = ? is fetched.  The read
\* runs outside any transaction and sees the committed rows.
Register(p, gene_data, gene_id, file_path) ==
    /\ pc[p] = "idle"
    /\ FirstIdle(p)
    /\ ncalls < MaxCalls
    /\ ncalls' = ncalls + 1
    /\ call' = [call EXCEPT ![p] =
                   [gene_data |-> gene_data, gene_id |-> gene_id,
                    file_path |-> file_path, content_hash |-> HashOf(gene_data)]]
    /\ LET found == {r \in content_hashes : r.content_hash = HashOf(gene_data)}
       IN  /\ existing' = [existing EXCEPT ![p] =
                              IF found = {} THEN <<>> ELSE <<CHOOSE r \in found : TRUE>>]
           /\ pc' = [pc EXCEPT ![p] = IF found = {} THEN "insert" ELSE "update"]
    /\ ret' = [ret EXCEPT ![p] = NoRet]
    /\ UNCHANGED <<db, txvars, clock, history, elsewhere>>

\* sqlite3.connect raises: the database file cannot be opened.  Nothing of
\* the call has reached the database.
ConnectFails(p) ==
    /\ pc[p] = "idle"
    /\ FirstIdle(p)
    /\ ncalls < MaxCalls
    /\ ncalls' = ncalls + 1
    /\ ret' = [ret EXCEPT ![p] = Raised("OperationalError", "connect", NoCall)]
    /\ UNCHANGED <<db, txvars, pc, call, existing, clock, history, elsewhere>>

\* Mutant: the UPDATE has lost its WHERE clause.
UpdateHash_NoWhere(p) ==
    /\ pc[p] = "update"
    /\ writer = NoProc
    /\ tx_hashes' =
          {UpdatedHashRow(r, Now,
               ExistingPaths(existing[p][1].file_paths, call[p].file_path))
           : r \in content_hashes}
    /\ tx_evolution' = gene_evolution
    /\ content_hashes' = Uncommitted(content_hashes, tx_hashes')
    /\ writer' = p
    /\ pc' = [pc EXCEPT ![p] = "dup_evolution"]
    /\ UNCHANGED <<gene_evolution, call, existing, ret, clock, ncalls, history, elsewhere>>

\* UPDATE content_hashes ...: opens the write transaction.
UpdateHash(p) ==
    /\ pc[p] = "update"
    /\ writer = NoProc
    /\ tx_hashes' =
          {IF r.content_hash = call[p].content_hash
           THEN UpdatedHashRow(r, Now,
                    ExistingPaths(existing[p][1].file_paths, call[p].file_path))
           ELSE r : r \in content_hashes}
    /\ tx_evolution' = gene_evolution
    /\ content_hashes' = Uncommitted(content_hashes, tx_hashes')
    /\ writer' = p
    /\ pc' = [pc EXCEPT ![p] = "dup_evolution"]
    /\ UNCHANGED <<gene_evolution, call, existing, ret, clock, ncalls, history, elsewhere>>

\* conn.commit(); conn.close(); return result: the working copy becomes the
\* committed database and the lock is released.
Commit(p, evolution) ==
    /\ writer = p
    /\ content_hashes' = tx_hashes
    /\ gene_evolution' = evolution
    /\ writer' = NoProc
    /\ tx_hashes' = {}
    /\ tx_evolution' = {}
    /\ ret' = [ret EXCEPT ![p] =
                  Returned(IF existing[p] # <<>>
                           THEN LinkedResult(existing[p][1])
                           ELSE CreatedResult(call[p].gene_id),
                           Summary(call[p], existing[p]))]
    /\ pc' = [pc EXCEPT ![p] = "idle"]
    /\ LET h == call[p].content_hash
       IN  /\ okCount' = [okCount EXCEPT ![h] = @ + 1]
           /\ okFirst' = [okFirst EXCEPT ![h] =
                             IF @ = NULL THEN call[p].gene_id ELSE @]
           /\ okPairs' = [okPairs EXCEPT ![h] =
                             @ \cup {<<call[p].gene_id, call[p].file_path>>}]
    /\ call' = [call EXCEPT ![p] = NoCall]
    /\ existing' = [existing EXCEPT ![p] = <<>>]
    /\ clock' = clock + 1
    /\ UNCHANGED <<ncalls, elsewhere>>

\* INSERT OR REPLACE INTO gene_evolution ... 'duplication', then the commit.
InsertDuplication(p) ==
    /\ pc[p] = "dup_evolution"
    /\ Commit(p, InsertOrReplace(tx_evolution,
          DuplicationRecord(call[p].gene_id, call[p].content_hash,
              existing[p][1].representative_gene_id, Now,
              ExistingPaths(existing[p][1].file_paths, call[p].file_path),
              call[p].file_path)))

\* INSERT INTO content_hashes ...: opens the write transaction.
InsertHash(p) ==
    /\ pc[p] = "insert"
    /\ writer = NoProc
    /\ ~HashKeyTaken(content_hashes, call[p].content_hash)
    /\ tx_hashes' = content_hashes \cup
          {NewHashRow(call[p].content_hash, Now, Now, call[p].gene_id,
                      call[p].file_path, call[p].gene_data)}
    /\ tx_evolution' = gene_evolution
    /\ content_hashes' = Uncommitted(content_hashes, tx_hashes')
    /\ writer' = p
    /\ pc' = [pc EXCEPT ![p] = "creation_evolution"]
    /\ UNCHANGED <<gene_evolution, call, existing, ret, clock, ncalls, history, elsewhere>>

\* INSERT INTO content_hashes raises sqlite3.IntegrityError: the key exists.
\* The exception leaves register_gene; the connection stays open.
InsertHashConflict(p) ==
    /\ pc[p] = "insert"
    /\ writer = NoProc
    /\ HashKeyTaken(content_hashes, call[p].content_hash)
    /\ tx_hashes' = content_hashes
    /\ tx_evolution' = gene_evolution
    /\ writer' = p
    /\ ret' = [ret EXCEPT ![p] = Raised("IntegrityError", "content_hashes", Summary(call[p], existing[p]))]
    /\ pc' = [pc EXCEPT ![p] = "raised"]
    /\ UNCHANGED <<db, call, existing, clock, ncalls, history, elsewhere>>

\* INSERT INTO gene_evolution ... 'creation', then the commit.
InsertCreation(p) ==
    /\ pc[p] = "creation_evolution"
    /\ ~GeneKeyTaken(tx_evolution, call[p].gene_id)
    /\ Commit(p, tx_evolution \cup
          {CreationRecord(call[p].gene_id, call[p].content_hash, Now,
                          call[p].file_path, call[p].gene_data)})

\* INSERT INTO gene_evolution raises sqlite3.IntegrityError: the gene id exists.
InsertCreationConflict(p) ==
    /\ pc[p] = "creation_evolution"
    /\ GeneKeyTaken(tx_evolution, call[p].gene_id)
    /\ ret' = [ret EXCEPT ![p] = Raised("IntegrityError", "gene_evolution", Summary(call[p], existing[p]))]
    /\ pc' = [pc EXCEPT ![p] = "raised"]
    /\ UNCHANGED <<db, txvars, call, existing, clock, ncalls, history, elsewhere>>

\* A write statement waits for the lock another connection holds until the
\* busy timeout expires: sqlite3.OperationalError (database is locked).
DatabaseLocked(p) ==
    /\ pc[p] \in {"update", "insert"}
    /\ writer \notin {NoProc, p}
    /\ ret' = [ret EXCEPT ![p] = Raised("OperationalError", "locked", Summary(call[p], existing[p]))]
    /\ pc' = [pc EXCEPT ![p] = "raised"]
    /\ UNCHANGED <<db, txvars, call, existing, clock, ncalls, history, elsewhere>>

\* After an exception the connection is dropped without a commit: its open
\* transaction is rolled back and its lock released.
DropConnection(p) ==
    /\ pc[p] = "raised"
    /\ IF writer = p
       THEN /\ writer' = NoProc
            /\ tx_hashes' = {}
            /\ tx_evolution' = {}
       ELSE UNCHANGED txvars
    /\ pc' = [pc EXCEPT ![p] = "idle"]
    /\ call' = [call EXCEPT ![p] = NoCall]
    /\ existing' = [existing EXCEPT ![p] = <<>>]
    /\ UNCHANGED <<db, ret, clock, ncalls, history, elsewhere>>

Next ==
    \/ \E p \in Procs, g \in Genes, id \in GeneIds, f \in Paths :
          Register(p, g, id, f)
    \/ \E p \in Procs : ConnectFails(p)
    \/ \E p \in Procs : UpdateHash(p)
    \/ \E p \in Procs : InsertDuplication(p)
    \/ \E p \in Procs : InsertHash(p)
    \/ \E p \in Procs : InsertHashConflict(p)
    \/ \E p \in Procs : InsertCreation(p)
    \/ \E p \in Procs : InsertCreationConflict(p)
    \/ \E p \in Procs : DatabaseLocked(p)
    \/ \E p \in Procs : DropConnection(p)

Spec == Init /\ [][Next]_vars

(***************************************************************************)
(* The queries: is_duplicate, get_gene_history, get_duplication_report.    *)
(* Each opens a connection of its own, runs SELECT statements outside any  *)
(* transaction and closes the connection: it reads the committed rows.     *)
(***************************************************************************)
\* Mutant: the query marks the rows of the table as read.
ReadOnly_Touch(table) ==
    {[r EXCEPT !.metadata = [read |-> TRUE]] : r \in table}

\* A query executes SELECT statements only and closes its connection: the
\* table after the query is the table before it.
ReadOnly(table) == table

\* Mutant: the SELECT has lost its WHERE clause.
is_duplicate_NoWhere(gene_data) ==
    LET result == content_hashes
    IN  IF result # {}
        THEN <<TRUE, (CHOOSE r \in result : TRUE).representative_gene_id>>
        ELSE <<FALSE, NULL>>

\* What is_duplicate returns: (True, result[0]) or (False, None).
is_duplicate(gene_data) ==
    LET content_hash == HashOf(gene_data)
        result == {r \in content_hashes : r.content_hash = content_hash}
    IN  IF result # {}
        THEN <<TRUE, (CHOOSE r \in result : TRUE).representative_gene_id>>
        ELSE <<FALSE, NULL>>

IsDuplicate(gene_data) ==
    /\ answer' = [op |-> "is_duplicate", gene_data |-> gene_data,
                  result |-> is_duplicate(gene_data)]
    /\ content_hashes' = ReadOnly(content_hashes)
    /\ UNCHANGED <<gene_evolution, txvars, pc, call, existing, ret, clock,
                   ncalls, history, classifier, reconstructor>>

RECURSIVE Orderings(_, _)
\* What ORDER BY may return: the sequences that hold every row of S once,
\* with the sort key never decreasing; rows of equal key come in any order.
Orderings(S, key) ==
    IF S = {} THEN {<<>>}
    ELSE LET least == {r \in S : \A q \in S : key[r] <= key[q]}
         IN  UNION {{<<r>> \o o : o \in Orderings(S \ {r}, key)} : r \in least}

\* ORDER BY timestamp
ByTimestamp(S) == [r \in S |-> r.timestamp]

\* WHERE gene_id = ? OR parent_gene_id = ?
Lineage(gene_id) ==
    {e \in gene_evolution : e.gene_id = gene_id \/ e.parent_gene_id = gene_id}

\* Stored text on which json.loads raises.
Malformed == [json |-> "invalid"]

\* The dict built from one fetched row; metadata is the dict register_gene
\* serialized, read back.
HistoryEntry(row) ==
    [evolution_type |-> row.evolution_type,
     confidence_score |-> row.confidence_score,
     timestamp |-> row.timestamp,
     metadata |-> row.metadata,
     parent_gene_id |-> row.parent_gene_id]

\* The loop over the fetched rows: json.loads raises on the first row whose
\* metadata is malformed, and the exception leaves get_gene_history.
GetGeneHistory(gene_id) ==
    /\ \E rows \in Orderings(Lineage(gene_id), ByTimestamp(Lineage(gene_id))) :  \* cursor.fetchall()
          answer' = IF \E i \in DOMAIN rows : rows[i].metadata = Malformed
                    THEN [op |-> "get_gene_history", gene_id |-> gene_id,
                          rows |-> rows, raised |-> "JSONDecodeError"]
                    ELSE [op |-> "get_gene_history", gene_id |-> gene_id,
                          rows |-> rows,
                          result |-> [i \in DOMAIN rows |-> HistoryEntry(rows[i])]]
    /\ gene_evolution' = ReadOnly(gene_evolution)
    /\ UNCHANGED <<content_hashes, txvars, pc, call, existing, ret, clock,
                   ncalls, history, classifier, reconstructor>>

RECURSIVE SumOver(_, _)
\* SELECT SUM(f[row]) over the rows of S
SumOver(S, f) ==
    IF S = {} THEN 0
    ELSE LET r == CHOOSE x \in S : TRUE
         IN  f[r] + SumOver(S \ {r}, f)

\* Mutant: the SELECT counts every record as duplicated.
Duplicated_NoWhere(table) == table

\* WHERE occurrence_count > 1
Duplicated(table) == {r \in table : r.occurrence_count > 1}

\* ORDER BY occurrence_count DESC
ByOccurrenceCountDesc(S) == [r \in S |-> 0 - r.occurrence_count]

\* Mutant: the SELECT has no LIMIT clause.
Limit_None(rows) == rows

\* LIMIT 10
Limit(rows) == SubSeq(rows, 1, IF Len(rows) < 10 THEN Len(rows) ELSE 10)

TopDuplicate(row) ==
    [gene_id |-> row.representative_gene_id,
     count |-> row.occurrence_count,
     files |-> row.file_paths]

\* A float as the fraction num / den.
Ratio(num, den) == [num |-> num, den |-> den]
Less(x, y) == x.num * y.den < y.num * x.den

\* round(x * 10^digits) for the fraction x, ties to the even neighbour:
\* round(x, 2) in hundredths, f"{x:.1f}" in tenths.
Rounded(x, scale) ==
    LET n == x.num * scale
        q == n \div x.den
        twice == 2 * (n - q * x.den)
    IN  IF twice > x.den \/ (twice = x.den /\ q % 2 = 1) THEN q + 1 ELSE q

\* Mutant: the share of duplicates itself, not what is left of 1.
Efficiency_DuplicateShare(duplicate_instances, total_genes) ==
    IF total_genes > 0
    THEN Ratio(100 * duplicate_instances, total_genes)
    ELSE Ratio(100, 1)

\* (1 - (duplicate_instances / total_genes)) * 100 if total_genes > 0 else 100
Efficiency(duplicate_instances, total_genes) ==
    IF total_genes > 0
    THEN Ratio(100 * (total_genes - duplicate_instances), total_genes)
    ELSE Ratio(100, 1)

\* Mutant: the three tests are one if / elif chain.
_generate_recommendations_Elif(efficiency, duplicated_contents) ==
    (IF Less(efficiency, Ratio(80, 1))
     THEN <<[rule |-> "high_duplication"]>>
     ELSE IF duplicated_contents > 50
     THEN <<[rule |-> "shared_utilities"]>>
     ELSE IF Less(Ratio(95, 1), efficiency)
     THEN <<[rule |-> "well_optimized"]>>
     ELSE <<>>)
    \o <<[rule |-> "efficiency", tenths |-> Rounded(efficiency, 10)]>>

\* The list _generate_recommendations returns: each message by the rule that
\* appended it, the last with the efficiency it shows, in tenths.
_generate_recommendations(efficiency, duplicated_contents) ==
    (IF Less(efficiency, Ratio(80, 1))
     THEN <<[rule |-> "high_duplication"]>> ELSE <<>>)
    \o (IF duplicated_contents > 50
        THEN <<[rule |-> "shared_utilities"]>> ELSE <<>>)
    \o (IF Less(Ratio(95, 1), efficiency)
        THEN <<[rule |-> "well_optimized"]>> ELSE <<>>)
    \o <<[rule |-> "efficiency", tenths |-> Rounded(efficiency, 10)]>>

\* The dict get_duplication_report returns, for one order of its top rows.
DuplicationReport(table, top) ==
    LET unique_contents == Cardinality(table)
        total_genes == SumOver(table, [r \in table |-> r.occurrence_count])
        duplicated_contents == Cardinality(Duplicated(table))
        duplicate_instances ==
            SumOver(Duplicated(table),
                    [r \in Duplicated(table) |-> r.occurrence_count - 1])
        efficiency == Efficiency(duplicate_instances, total_genes)
    IN  [summary |->
            [unique_contents |-> unique_contents,
             total_gene_instances |-> total_genes,
             duplicated_contents |-> duplicated_contents,
             duplicate_instances |-> duplicate_instances,
             efficiency_percentage |-> Rounded(efficiency, 100)],
         top_duplicates |-> [i \in DOMAIN Limit(top) |-> TopDuplicate(top[i])],
         recommendation |->
            _generate_recommendations(efficiency, duplicated_contents)]

GetDuplicationReport ==
    /\ \E top \in Orderings(Duplicated(content_hashes),
                            ByOccurrenceCountDesc(Duplicated(content_hashes))) :
          answer' = [op |-> "get_duplication_report",
                     result |-> DuplicationReport(content_hashes, top)]
    /\ content_hashes' = ReadOnly(content_hashes)
    /\ UNCHANGED <<gene_evolution, txvars, pc, call, existing, ret, clock,
                   ncalls, history, classifier, reconstructor>>

\* The one client that registers genes while the queries run.
Registrar == "p1"

QueryNext ==
    \/ \E g \in Genes, id \in GeneIds, f \in Paths : Register(Registrar, g, id, f)
    \/ ConnectFails(Registrar)
    \/ UpdateHash(Registrar)
    \/ InsertDuplication(Registrar)
    \/ InsertHash(Registrar)
    \/ InsertCreation(Registrar)
    \/ InsertCreationConflict(Registrar)
    \/ DropConnection(Registrar)
    \/ \E g \in Genes : IsDuplicate(g)
    \/ \E id \in GeneIds : GetGeneHistory(id)
    \/ GetDuplicationReport

QuerySpec == Init /\ [][QueryNext]_vars

(***************************************************************************)
(* get_duplication_report on a store that earlier runs have filled: the    *)
(* tables hold more records than the registrations of one run create.      *)
(***************************************************************************)
MaxRows == 12

Digits == "0123456789"

RECURSIVE Numeral(_)
\* str(k)
Numeral(k) ==
    IF k < 10 THEN Char(Digits, k + 1)
    ELSE Numeral(k \div 10) \o Char(Digits, (k % 10) + 1)

\* The k-th fragment of the store, the id of its j-th registration, and the
\* files it was found in: a.js first, b.js from the second registration on.
StoredGene(k) == [content |-> "f" \o Numeral(k), type |-> "function", name |-> "f"]
StoredHash(k) ==
    calculate_content_hash(StoredGene(k).content, StoredGene(k).type,
                           StoredGene(k).name)
StoredGeneId(k, j) == "G-" \o Numeral(k) \o "-" \o Numeral(j)

\* The record of the k-th fragment after count registrations, at times
\* 1..count: the row INSERT wrote, updated count - 1 times.
StoredHashRow(k, count) ==
    [NewHashRow(StoredHash(k), 1, 1, StoredGeneId(k, 1), "a.js", StoredGene(k))
        EXCEPT !.last_seen = count,
               !.occurrence_count = count,
               !.file_paths = IF count > 1 THEN <<"a.js", "b.js">> ELSE @]

\* The evolution records of those registrations.
StoredEvolution(k, count) ==
    {CreationRecord(StoredGeneId(k, 1), StoredHash(k), 1, "a.js", StoredGene(k))}
    \cup {DuplicationRecord(StoredGeneId(k, j), StoredHash(k), StoredGeneId(k, 1),
                            j, <<"a.js", "b.js">>, "b.js") : j \in 2..count}

\* How often each of n fragments was registered:
\*   Ranked  the k-th k times: no two counts equal, the first not duplicated;
\*   Tied    1, 2, 2, 3, 3, ...: counts equal in pairs;
\*   Flat    the first twice, every other once;
\*   Heavy   one fragment, registered 20001 times.
Ranked(n) == [k \in 1..n |-> k]
Tied(n) == [k \in 1..n |-> (k \div 2) + 1]
Flat(n) == [k \in 1..n |-> IF k = 1 THEN 2 ELSE 1]
Heavy == [k \in {1} |-> 20001]

\* The stores of the model: up to MaxRows records of each kind, flat stores
\* of up to 20 records, ranked ones of 51 and 52 records, where 50 and 51
\* contents are duplicated, and the heavy one.
Registrations ==
    {Ranked(n) : n \in (0..MaxRows) \cup {51, 52}}
    \cup {Tied(n) : n \in 0..MaxRows}
    \cup {Flat(n) : n \in 1..20}
    \cup {Heavy}

HashTable(counts) == {StoredHashRow(k, counts[k]) : k \in DOMAIN counts}
Ledger(counts) == UNION {StoredEvolution(k, counts[k]) : k \in DOMAIN counts}

\* The arguments of _generate_recommendations for stores larger than those
\* of the model: efficiencies around 80 and 95 with 50 and 51 duplicated
\* contents.
RecommendationInputs ==
    {<<Ratio(e, 10), d>> : e \in {799, 800, 801, 950, 951}, d \in {50, 51}}

\* One call of _generate_recommendations.
GenerateRecommendations(efficiency, duplicated_contents) ==
    /\ answer' = [op |-> "_generate_recommendations",
                  efficiency |-> efficiency,
                  duplicated_contents |-> duplicated_contents,
                  result |-> _generate_recommendations(efficiency,
                                                       duplicated_contents)]
    /\ UNCHANGED <<store, classifier, reconstructor>>

ReportInit ==
    /\ \E counts \in Registrations :
          /\ content_hashes = HashTable(counts)
          /\ gene_evolution = Ledger(counts)
    /\ NoCalls
    /\ answer = NoAnswer
    /\ ClassifierIdle
    /\ ReconstructorIdle

ReportNext ==
    \/ GetDuplicationReport
    \/ \E input \in RecommendationInputs :
          GenerateRecommendations(input[1], input[2])

ReportSpec == ReportInit /\ [][ReportNext]_vars

(***************************************************************************)
(* register_gene called by clients that give every gene an id of its own:  *)
(* the calls are those of Spec, the gene id of a call being a new one.     *)
(***************************************************************************)
\* The gene id of the next call: no earlier call has used it.
NewGeneId == "G-" \o Numeral(ncalls + 1)

\* INSERT INTO gene_evolution never finds its key taken, the id being new:
\* the other statements of register_gene succeed and fail as in Spec.
LedgerNext ==
    \/ \E p \in Procs, g \in Genes, f \in Paths : Register(p, g, NewGeneId, f)
    \/ \E p \in Procs : ConnectFails(p)
    \/ \E p \in Procs : UpdateHash(p)
    \/ \E p \in Procs : InsertDuplication(p)
    \/ \E p \in Procs : InsertHash(p)
    \/ \E p \in Procs : InsertHashConflict(p)
    \/ \E p \in Procs : InsertCreation(p)
    \/ \E p \in Procs : DatabaseLocked(p)
    \/ \E p \in Procs : DropConnection(p)

LedgerSpec == Init /\ [][LedgerNext]_vars

(***************************************************************************)
(* get_gene_history on a store in which the metadata of some evolution     *)
(* records no longer is JSON text.                                         *)
(***************************************************************************)
\* The ledger with the metadata of the records in damaged overwritten.
Damaged(ledger, damaged) ==
    {IF e \in damaged THEN [e EXCEPT !.metadata = Malformed] ELSE e :
        e \in ledger}

\* Stores of up to three contents, registered 1, 2 and 3 times.
HistoryStores == {Ranked(n) : n \in 0..3}
HistoryIds == {StoredGeneId(k, j) : k \in 1..3, j \in 1..3}

HistoryInit ==
    /\ \E counts \in HistoryStores :
          /\ content_hashes = HashTable(counts)
          /\ \E damaged \in SUBSET Ledger(counts) :
                gene_evolution = Damaged(Ledger(counts), damaged)
    /\ NoCalls
    /\ answer = NoAnswer
    /\ ClassifierIdle
    /\ ReconstructorIdle

HistoryNext == \E gene_id \in HistoryIds : GetGeneHistory(gene_id)

HistorySpec == HistoryInit /\ [][HistoryNext]_vars

(***************************************************************************)
(* detect_mutations: the classification of a change between two versions   *)
(* of a fragment.  A float is the fraction of two integers, so that the    *)
(* comparisons with 0.8 and 0.3 are exact.                                 *)
(***************************************************************************)
\* set(self._normalize_content(content).split())
WordSet(content) ==
    LET words == Words(_normalize_content(content))
    IN  {words[i] : i \in DOMAIN words}

\* Mutant: the intersection is divided by the size of the first set.
_calculate_similarity_OverFirst(content1, content2) ==
    LET words1 == WordSet(content1)
        words2 == WordSet(content2)
    IN  IF words1 = {} /\ words2 = {}
        THEN Ratio(1, 1)
        ELSE Ratio(Cardinality(words1 \cap words2), Cardinality(words1))

\* Mutant: two empty sets of words are not taken to be identical.
_calculate_similarity_EmptyIsZero(content1, content2) ==
    LET words1 == WordSet(content1)
        words2 == WordSet(content2)
        intersection == Cardinality(words1 \cap words2)
        union == Cardinality(words1 \cup words2)
    IN  IF union > 0 THEN Ratio(intersection, union) ELSE Ratio(0, 1)

_calculate_similarity(content1, content2) ==
    LET words1 == WordSet(content1)
        words2 == WordSet(content2)
        intersection == Cardinality(words1 \cap words2)
        union == Cardinality(words1 \cup words2)
    IN  IF words1 = {} /\ words2 = {}
        THEN Ratio(1, 1)
        ELSE IF union > 0 THEN Ratio(intersection, union) ELSE Ratio(0, 1)

\* Mutant: the threshold itself passes the test.
Exceeds_OrEquals(similarity, threshold) == ~Less(similarity, threshold)

\* similarity > threshold
Exceeds(similarity, threshold) == Less(threshold, similarity)

\* 1 - similarity
OneMinus(similarity) == Ratio(similarity.den - similarity.num, similarity.den)

\* The if / elif / else over the similarity, and the dict each branch returns.
Classification(similarity, old_hash, new_hash) ==
    IF Exceeds(similarity, Ratio(8, 10))
    THEN [type |-> "mutation", confidence |-> similarity,
          old_hash |-> old_hash, new_hash |-> new_hash,
          similarity |-> similarity]
    ELSE IF Exceeds(similarity, Ratio(3, 10))
    THEN [type |-> "major_refactor", confidence |-> similarity,
          old_hash |-> old_hash, new_hash |-> new_hash,
          similarity |-> similarity]
    ELSE [type |-> "replacement", confidence |-> OneMinus(similarity),
          old_hash |-> old_hash, new_hash |-> new_hash,
          similarity |-> similarity]

\* Mutant: equal hashes are classified like any other pair.
detect_mutations_NoShortCircuit(old, new) ==
    Classification(_calculate_similarity(old.content, new.content),
                   calculate_content_hash(old.content, old.type, old.name),
                   calculate_content_hash(new.content, new.type, new.name))

detect_mutations(old, new) ==
    LET old_hash == calculate_content_hash(old.content, old.type, old.name)
        new_hash == calculate_content_hash(new.content, new.type, new.name)
    IN  IF old_hash = new_hash
        THEN [type |-> "no_change", confidence |-> Ratio(1, 1)]
        ELSE Classification(_calculate_similarity(old.content, new.content),
                            old_hash, new_hash)

\* Inputs of the classifier.
Fragment(content, type, name) ==
    [content |-> content, type |-> type, name |-> name]

\* the fragments of the two versions of sum
SumAB == Fragment("function sum(a,b){return a+b;}", "function", "sum")
SumABC == Fragment("function sum(a,b,c=0){return a+b+c;}", "function", "sum")

Samples ==
    {Fragment("a b c d", "function", "sum"),
     \* the same in another formatting, the name in another case
     Fragment(" a  b\tc d \n\n// x", "function", "SUM"),
     \* the same words on two lines, in another order, as another type
     Fragment("a b\nc d", "function", "sum"),
     Fragment("d c b a", "function", "sum"),
     Fragment("a b c d", "class", "sum"),
     \* 4 of 5 words shared with the first; 5 of 6 with the next
     Fragment("a b c d e", "function", "sum"),
     Fragment("a b c d e f", "function", "sum"),
     \* 3 of 10 words shared with the one before
     Fragment("a b c g h i j", "function", "sum"),
     \* no words at all
     Fragment("", "function", "sum"),
     Fragment("# x", "function", "total"),
     \* the separator inside the name, and inside the content
     Fragment("a b c d", "function", "class::sum"),
     Fragment("a b c d::function", "class", "sum"),
     \* the separator inside the type: the words of the first, its hash too
     Fragment("a b c d", "function::class", "sum"),
     SumAB, SumABC}

\* calculate_content_hash applied to the two fragments.
CalculateContentHash ==
    /\ fingerprint = Nothing
    /\ fingerprint' =
          [old |-> calculate_content_hash(old_gene.content, old_gene.type,
                                          old_gene.name),
           new |-> calculate_content_hash(new_gene.content, new_gene.type,
                                          new_gene.name)]
    /\ UNCHANGED <<store, answer, old_gene, new_gene, analysis, reconstructor>>

DetectMutations ==
    /\ analysis = Nothing
    /\ analysis' = detect_mutations(old_gene, new_gene)
    /\ UNCHANGED <<store, answer, old_gene, new_gene, fingerprint, reconstructor>>

DetectInit ==
    /\ StoreInit
    /\ answer = NoAnswer
    /\ old_gene \in Samples
    /\ new_gene \in Samples
    /\ fingerprint = Nothing
    /\ analysis = Nothing
    /\ ReconstructorIdle

DetectNext ==
    \/ CalculateContentHash
    \/ DetectMutations

DetectSpec == DetectInit /\ [][DetectNext]_vars

(***************************************************************************)
(* reconstruct_file (scripts/genetic-reconstruction.py): a file's content  *)
(* from the rows of table genes.  The content column holds JSON text: the  *)
(* model keeps what json.loads makes of it, an object or a failure.        *)
(***************************************************************************)
\* Stored content that json.loads turns into a dict; Malformed is stored
\* content on which it raises.
JsonObject(value) == [json |-> "object", value |-> value]
FunctionGene(code) == JsonObject([type |-> "function", code |-> code])
FullFileGene(content) == JsonObject([type |-> "full_file", content |-> content])
ClassGene == JsonObject([type |-> "class", code |-> "C"])

StoredContents ==
    {FunctionGene("f"), FunctionGene("g"), FullFileGene("F"), FullFileGene("H"),
     ClassGene, Malformed}

\* A row of table genes, with the columns the script reads; content_hash is
\* the text of a digest.
GeneRow(gene_id, file_path, created_at, content) ==
    [gene_id |-> gene_id, file_path |-> file_path,
     created_at |-> created_at, content |-> content,
     actor |-> "dev", content_hash |-> gene_id \o "0123456789abcdef"]

\* The tables of the model: up to three rows of a.js, each of any content
\* and creation time, and possibly a row of b.js.
Times == {1, 2, 3}
RowChoices(gene_id, file_path) ==
    {{}} \cup {{GeneRow(gene_id, file_path, t, c)} :
                   t \in Times, c \in StoredContents}
GeneTables ==
    {r1 \cup r2 \cup r3 \cup r4 :
        r1 \in RowChoices("v1-a", "a.js"),
        r2 \in RowChoices("v1-b", "a.js"),
        r3 \in RowChoices("v2-a", "a.js"),
        r4 \in {{}, {GeneRow("v2-b", "b.js", 3, FullFileGene("B"))}}}

Versions == {"latest", "V1", "2-_"}

RECURSIVE LikeMatch(_, _)
\* SQLite's s LIKE pattern: % is any run of characters, _ any one character,
\* letters match in either case.
LikeMatch(pattern, s) ==
    IF pattern = "" THEN s = ""
    ELSE IF Char(pattern, 1) = "%"
    THEN \/ LikeMatch(Tail(pattern), s)
         \/ s # "" /\ LikeMatch(pattern, Tail(s))
    ELSE /\ s # ""
         /\ \/ Char(pattern, 1) = "_"
            \/ LowerChar(Char(pattern, 1)) = LowerChar(Char(s, 1))
         /\ LikeMatch(Tail(pattern), Tail(s))

\* WHERE file_path = ? [AND gene_id LIKE ?], the second for a version other
\* than "latest"
Selected(table, file_path, version) ==
    {r \in table :
        /\ r.file_path = file_path
        /\ version # "latest" => LikeMatch("%" \o version \o "%", r.gene_id)}

\* Mutant: the rows come oldest first.
ByCreatedAtDesc_Ascending(S) == [r \in S |-> r.created_at]

\* ORDER BY created_at DESC
ByCreatedAtDesc(S) == [r \in S |-> 0 - r.created_at]

\* dict.get(key, default)
Get(dict, key, default) == IF key \in DOMAIN dict THEN dict[key] ELSE default

RECURSIVE Walk_CountsEveryGene(_, _, _, _)
\* Mutant: gene_count is incremented for a gene of any type.
Walk_CountsEveryGene(rows, i, reconstructed_content, gene_count) ==
    IF i > Len(rows)
    THEN [raised |-> FALSE, reconstructed_content |-> reconstructed_content,
          gene_count |-> gene_count]
    ELSE IF rows[i].content.json # "object"
    THEN [raised |-> TRUE]
    ELSE LET gene_data == rows[i].content.value
         IN  IF Get(gene_data, "type", NULL) = "function"
             THEN Walk_CountsEveryGene(rows, i + 1,
                       reconstructed_content \o Get(gene_data, "code", "")
                           \o "\n\n",
                       gene_count + 1)
             ELSE IF Get(gene_data, "type", NULL) = "full_file"
             THEN [raised |-> FALSE,
                   reconstructed_content |-> Get(gene_data, "content", ""),
                   gene_count |-> 1]
             ELSE Walk_CountsEveryGene(rows, i + 1, reconstructed_content,
                                       gene_count + 1)

RECURSIVE Walk(_, _, _, _)
\* The loop over the fetched genes from the i-th on: the content and the
\* count when the loop ends, or the exception json.loads raises.
Walk(rows, i, reconstructed_content, gene_count) ==
    IF i > Len(rows)
    THEN [raised |-> FALSE, reconstructed_content |-> reconstructed_content,
          gene_count |-> gene_count]
    ELSE IF rows[i].content.json # "object"
    THEN [raised |-> TRUE]
    ELSE LET gene_data == rows[i].content.value
         IN  IF Get(gene_data, "type", NULL) = "function"
             THEN Walk(rows, i + 1,
                       reconstructed_content \o Get(gene_data, "code", "")
                           \o "\n\n",
                       gene_count + 1)
             ELSE IF Get(gene_data, "type", NULL) = "full_file"
             THEN [raised |-> FALSE,
                   reconstructed_content |-> Get(gene_data, "content", ""),
                   gene_count |-> 1]
             ELSE Walk(rows, i + 1, reconstructed_content, gene_count)

\* hashlib.sha256(...).hexdigest()[:8]
ShortHash(text) == [sha256 |-> text, hexdigits |-> 8]

\* Mutant: the "if not genes" test is gone, the loop runs over no rows.
reconstruct_file_NoNotFound(rows, file_path, version) ==
    LET walked == Walk(rows, 1, "", 0)
    IN  IF walked.raised
        THEN [success |-> FALSE, error |-> "Reconstruction failed",
              file_path |-> file_path, version |-> version]
        ELSE [success |-> TRUE, file_path |-> file_path,
              version |-> version,
              reconstructed_content |-> walked.reconstructed_content,
              gene_count |-> walked.gene_count,
              genes_used |-> [k \in DOMAIN rows |-> rows[k].gene_id],
              content_hash |-> ShortHash(walked.reconstructed_content)]

\* What reconstruct_file returns once cursor.fetchall() has returned rows.
reconstruct_file(rows, file_path, version) ==
    IF rows = <<>>
    THEN [success |-> FALSE,
          error |-> "No genes found for file: " \o file_path,
          file_path |-> file_path, version |-> version]
    ELSE LET walked == Walk(rows, 1, "", 0)
         IN  IF walked.raised
             THEN [success |-> FALSE, error |-> "Reconstruction failed",
                   file_path |-> file_path, version |-> version]
             ELSE [success |-> TRUE, file_path |-> file_path,
                   version |-> version,
                   reconstructed_content |-> walked.reconstructed_content,
                   gene_count |-> walked.gene_count,
                   genes_used |-> [k \in DOMAIN rows |-> rows[k].gene_id],
                   content_hash |-> ShortHash(walked.reconstructed_content)]

\* One call of reconstruct_file on the table.
ReconstructFile(file_path, version) ==
    /\ reconstruction = Nothing
    /\ \E rows \in Orderings(Selected(genes, file_path, version),
                             ByCreatedAtDesc(Selected(genes, file_path, version))) :
          reconstruction' = reconstruct_file(rows, file_path, version)
    /\ UNCHANGED <<store, answer, classifier, genes, cli>>

\* connect_db returns False: sqlite3.connect raised.
ConnectDbFails ==
    /\ reconstruction = Nothing
    /\ reconstruction' = [success |-> FALSE,
                          error |-> "Database connection failed"]
    /\ UNCHANGED <<store, answer, classifier, genes, cli>>

ReconstructInit ==
    /\ StoreInit
    /\ answer = NoAnswer
    /\ ClassifierIdle
    /\ genes \in GeneTables
    /\ reconstruction = Nothing
    /\ CliIdle

ReconstructNext ==
    \/ \E file_path \in Paths, version \in Versions :
          ReconstructFile(file_path, version)
    \/ ConnectDbFails

ReconstructSpec == ReconstructInit /\ [][ReconstructNext]_vars

(***************************************************************************)
(* The command line of genetic-reconstruction.py: main() and the two       *)
(* listings it offers next to reconstruct_file.                            *)
(***************************************************************************)
\* SELECT file_path, COUNT(*), MAX(created_at) FROM genes GROUP BY file_path
FileGroups(table) ==
    {[file_path |-> f,
      gene_count |-> Cardinality({r \in table : r.file_path = f}),
      last_update |-> CHOOSE t \in {r.created_at : r \in table} :
                         /\ \E r \in table : r.file_path = f /\ r.created_at = t
                         /\ \A r \in table : r.file_path = f => r.created_at <= t] :
        f \in {r.file_path : r \in table}}

\* ORDER BY last_update DESC
ByLastUpdateDesc(S) == [g \in S |-> 0 - g.last_update]

\* What list_available_files returns once cursor.fetchall() has returned.
list_available_files(files) ==
    [success |-> TRUE, available_files |-> files, total_files |-> Len(files)]

\* One entry of versions: json_extract(content, '$.type') and
\* substr(content_hash, 1, 8) are computed by the SELECT.
Version(row) ==
    [gene_id |-> row.gene_id,
     created_at |-> row.created_at,
     actor |-> row.actor,
     content_type |-> Get(row.content.value, "type", NULL),
     short_hash |-> SubSeq(row.content_hash, 1, 8)]

\* What get_file_versions returns: json_extract fails on content that is not
\* JSON (malformed JSON), and the except branch reports it.
get_file_versions(rows, file_path) ==
    IF \E i \in DOMAIN rows : rows[i].content = Malformed
    THEN [success |-> FALSE, error |-> "Failed to get versions",
          file_path |-> file_path]
    ELSE [success |-> TRUE, file_path |-> file_path,
          versions |-> [i \in DOMAIN rows |-> Version(rows[i])],
          total_versions |-> Len(rows)]

\* The dict main prints when sys.argv holds no command.
Usage ==
    [error |-> "Usage: genetic-reconstruction.py <command> [args...]",
     commands |-> [reconstruct |-> "reconstruct <file_path> [version]",
                   list |-> "list",
                   versions |-> "versions <file_path>"]]

\* The command needs the database: it calls a method that connects.
Connects(args) ==
    \/ args[2] = "list"
    \/ args[2] \in {"reconstruct", "versions"} /\ Len(args) >= 3

\* The values result can take in main for sys.argv = args with a command,
\* the database open: one for each order in which the rows may come.
Results(args) ==
    LET command == args[2]
    IN  IF command = "reconstruct"
        THEN IF Len(args) < 3
             THEN {[error |-> "File path required for reconstruction"]}
             ELSE LET file_path == args[3]
                      version == IF Len(args) > 3 THEN args[4] ELSE "latest"
                      found == Selected(genes, file_path, version)
                  IN  {reconstruct_file(rows, file_path, version) :
                          rows \in Orderings(found, ByCreatedAtDesc(found))}
        ELSE IF command = "list"
        THEN {list_available_files(files) :
                 files \in Orderings(FileGroups(genes),
                                     ByLastUpdateDesc(FileGroups(genes)))}
        ELSE IF command = "versions"
        THEN IF Len(args) < 3
             THEN {[error |-> "File path required for versions command"]}
             ELSE LET found == Selected(genes, args[3], "latest")
                  IN  {get_file_versions(rows, args[3]) :
                          rows \in Orderings(found, ByCreatedAtDesc(found))}
        ELSE {[error |-> "Unknown command: " \o command]}

\* One run of the script: main() prints one dict and the process exits,
\* with status 1 after sys.exit(1) and 0 when main returns.  json.dumps
\* takes every value the rows of the model hold, so the except branch of
\* main is not entered.
Main ==
    /\ exit_status = NotExited
    /\ IF Len(argv) < 2
       THEN /\ stdout' = Append(stdout, Usage)
            /\ exit_status' = 1
       ELSE /\ \E result \in Results(argv) : stdout' = Append(stdout, result)
            /\ exit_status' = 0
    /\ UNCHANGED <<store, answer, classifier, genes, reconstruction, argv>>

\* The same with connect_db returning False in the method main calls.
MainConnectFails ==
    /\ exit_status = NotExited
    /\ Len(argv) >= 2
    /\ Connects(argv)
    /\ stdout' = Append(stdout, [success |-> FALSE,
                                 error |-> "Database connection failed"])
    /\ exit_status' = 0
    /\ UNCHANGED <<store, answer, classifier, genes, reconstruction, argv>>

\* The command lines of the model; sys.argv[0] is the script.
Script == "genetic-reconstruction.py"
Argvs ==
    {<<Script>>,
     <<Script, "reconstruct">>,
     <<Script, "reconstruct", "a.js">>,
     <<Script, "reconstruct", "a.js", "V1">>,
     <<Script, "reconstruct", "c.js">>,
     <<Script, "list">>,
     <<Script, "versions">>,
     <<Script, "versions", "a.js">>,
     <<Script, "verify">>}

\* The tables of at most two rows.
CliTables == {table \in GeneTables : Cardinality(table) <= 2}

CliInit ==
    /\ StoreInit
    /\ answer = NoAnswer
    /\ ClassifierIdle
    /\ genes \in CliTables
    /\ reconstruction = Nothing
    /\ argv \in Argvs
    /\ stdout = <<>>
    /\ exit_status = NotExited

CliNext ==
    \/ Main
    \/ MainConnectFails

CliSpec == CliInit /\ [][CliNext]_vars

(***************************************************************************)
(* Vocabulary of the properties.                                           *)
(***************************************************************************)
RowsOf(h) == {r \in content_hashes : r.content_hash = h}
PathSet(file_paths) == {file_paths[i] : i \in 1..Len(file_paths)}
RecordsOf(gene_id) == {e \in gene_evolution : e.gene_id = gene_id}

\* The step in which process p commits and returns.
CommitStep(p) ==
    /\ pc[p] \in {"dup_evolution", "creation_evolution"}
    /\ pc'[p] = "idle"
    /\ ret'[p].status = "returned"

\* p's last call went through its existence check (it got past connect).
Checked(p) ==
    /\ ret[p].status \in {"returned", "raised"}
    /\ "content_hash" \in DOMAIN ret[p].call

\* p's last call found no record for its fingerprint and did not create one.
LostRace(p) ==
    /\ Checked(p)
    /\ ~ret[p].call.found
    /\ \/ ret[p].status = "raised" /\ ret[p].at \in {"content_hashes", "locked"}
       \/ ret[p].status = "returned" /\ ret[p].result.action # "created_new"

Created(p) ==
    /\ Checked(p)
    /\ ret[p].status = "returned"
    /\ ret[p].result.action = "created_new"

(***************************************************************************)
(* C1.  Of two register calls that both found no record for the same       *)
(* fingerprint, at most one returns created_new, and the other returns     *)
(* linked_to_existing with a duplication record whose parent is the        *)
(* winner's gene id.                                                       *)
(***************************************************************************)
C1_LoserLinksToWinner ==
    \A p \in Procs : \A q \in Procs \ {p} :
        (/\ Checked(p) /\ Checked(q)
         /\ ret[p].call.content_hash = ret[q].call.content_hash
         /\ ret[p].call.gene_id # ret[q].call.gene_id
         /\ ~ret[p].call.found /\ ~ret[q].call.found
         /\ Created(p))
        => /\ ~Created(q)
           /\ LostRace(q) =>
                 /\ ret[q].status = "returned"
                 /\ ret[q].result.action = "linked_to_existing"
                 /\ \E e \in RecordsOf(ret[q].call.gene_id) :
                       /\ e.evolution_type = "duplication"
                       /\ e.parent_gene_id = ret[p].call.gene_id

(***************************************************************************)
(* C2.  A register call that races with another writer on its fingerprint  *)
(* never ends in an exception: the insert into content_hashes is never     *)
(* rejected for a key the other writer has just created.                   *)
(***************************************************************************)
C2_NoConflictSurfaces ==
    \A p \in Procs :
        ~(ret[p].status = "raised" /\ ret[p].at = "content_hashes")

(***************************************************************************)
(* C3.  Each fingerprint has at most one ContentHashRecord, in the         *)
(* committed table and in a writer's working copy, and its                 *)
(* representative_gene_id is at all times the gene id of the first         *)
(* registration committed for that fingerprint.                            *)
(***************************************************************************)
C3_OneRecordFirstWriterWins ==
    /\ \A r1 \in content_hashes : \A r2 \in content_hashes :
           r1.content_hash = r2.content_hash => r1 = r2
    /\ \A r1 \in tx_hashes : \A r2 \in tx_hashes :
           r1.content_hash = r2.content_hash => r1 = r2
    /\ \A r \in content_hashes :
           r.representative_gene_id = okFirst[r.content_hash]
    /\ \A r \in tx_hashes :
           okFirst[r.content_hash] # NULL =>
               r.representative_gene_id = okFirst[r.content_hash]

\* A second gene id has been linked to a record whose representative is still
\* the first one, and a racing insert of the same fingerprint was rejected.
C3_Witness ==
    \E r \in content_hashes :
        /\ r.occurrence_count >= 2
        /\ \E e \in gene_evolution :
              /\ e.content_hash = r.content_hash
              /\ e.gene_id # r.representative_gene_id
        /\ \E p \in Procs :
              /\ ret[p].status = "raised"
              /\ ret[p].at = "content_hashes"
              /\ ret[p].call.content_hash = r.content_hash

(***************************************************************************)
(* C4.  For every fingerprint, occurrence_count equals the number of       *)
(* register calls committed for it (there is no record while that number   *)
(* is 0), and the representative is the first gene registered; whatever    *)
(* the interleaving.                                                       *)
(***************************************************************************)
C4_CountIsRegistrations ==
    \A h \in Hashes :
        IF okCount[h] = 0
        THEN RowsOf(h) = {}
        ELSE /\ RowsOf(h) # {}
             /\ \A r \in RowsOf(h) :
                   /\ r.occurrence_count = okCount[h]
                   /\ r.representative_gene_id = okFirst[h]

\* Three registrations of one fingerprint, the last two interleaved: both
\* read the count 1 before either wrote.
C4_Witness ==
    \E h \in Hashes :
        /\ okCount[h] = 3
        /\ \E r \in RowsOf(h) : r.occurrence_count = 3
        /\ \A p \in Procs :
              /\ ret[p].status = "returned"
              /\ ret[p].call.content_hash = h
              /\ ret[p].result.action = "linked_to_existing"
              /\ ret[p].result.occurrence_count = 2

(***************************************************************************)
(* C5.  file_paths only grows: the path of every committed registration of *)
(* a fingerprint is in the file_paths of its record in every later state.  *)
(***************************************************************************)
C5_PathsOnlyGrow ==
    \A h \in Hashes : \A r \in RowsOf(h) :
        {x[2] : x \in okPairs[h]} \subseteq PathSet(r.file_paths)

(***************************************************************************)
(* C6.  Resubmitting a register call whose (gene id, file_path) pair is    *)
(* already registered for its fingerprint is a no-op: the commit of such a *)
(* call leaves content_hashes and gene_evolution as they were.             *)
(***************************************************************************)
C6_RetryIsNoOp ==
    [][\A p \in Procs :
          (/\ CommitStep(p)
           /\ <<call[p].gene_id, call[p].file_path>>
                  \in okPairs[call[p].content_hash])
          => /\ content_hashes' = content_hashes
             /\ gene_evolution' = gene_evolution]_vars

(***************************************************************************)
(* C7.  The evolution ledger is append-only: every EvolutionRecord of a    *)
(* state is in the ledger, with the same fields, in the next state.        *)
(***************************************************************************)
C7_LedgerAppendOnly ==
    [][\A e \in gene_evolution : e \in gene_evolution']_vars

(***************************************************************************)
(* C8.  The committed tables change only in the step in which the call     *)
(* holding the write lock commits and returns, and then both change: a     *)
(* call that raises has changed neither table, and no state holds only one *)
(* of the two records of a registration.                                   *)
(***************************************************************************)
C8_NoPartialWrite ==
    [][(content_hashes' # content_hashes \/ gene_evolution' # gene_evolution)
       => /\ \E p \in Procs : writer = p /\ CommitStep(p)
          /\ content_hashes' # content_hashes
          /\ gene_evolution' # gene_evolution]_vars

\* A call whose first write went into its transaction was rejected on its
\* second write and its connection dropped: its fingerprint has no record.
C8_Witness ==
    \E p \in Procs :
        /\ ret[p].status = "raised"
        /\ ret[p].at = "gene_evolution"
        /\ pc[p] = "idle"
        /\ writer = NoProc
        /\ RowsOf(ret[p].call.content_hash) = {}
        /\ content_hashes # {}

(***************************************************************************)
(* C9.  The commit of a register call on a fingerprint not in the store    *)
(* leaves a record with occurrence_count 1, the gene as representative and *)
(* file_paths = {file_path}, a creation EvolutionRecord with confidence    *)
(* 1.0 and no parent, and returns is_duplicate = false, action =           *)
(* created_new, representative_gene_id = gene.id and occurrence_count = 1. *)
(***************************************************************************)
C9_CreatedNew ==
    [][\A p \in Procs :
          (CommitStep(p) /\ pc[p] = "creation_evolution")
          => /\ \E r \in content_hashes' :
                   /\ r.content_hash = call[p].content_hash
                   /\ r.occurrence_count = 1
                   /\ r.representative_gene_id = call[p].gene_id
                   /\ r.file_paths = <<call[p].file_path>>
             /\ \E e \in gene_evolution' :
                   /\ e.gene_id = call[p].gene_id
                   /\ e.content_hash = call[p].content_hash
                   /\ e.evolution_type = "creation"
                   /\ e.confidence_score = 100
                   /\ e.parent_gene_id = NULL
             /\ ret'[p].result.is_duplicate = FALSE
             /\ ret'[p].result.action = "created_new"
             /\ "representative_gene_id" \in DOMAIN ret'[p].result
             /\ ret'[p].result.representative_gene_id = call[p].gene_id
             /\ "occurrence_count" \in DOMAIN ret'[p].result
             /\ ret'[p].result.occurrence_count = 1]_vars

(***************************************************************************)
(* C10.  The commit of a register call on a fingerprint already in the     *)
(* store adds file_path to the record's file_paths only if absent, adds    *)
(* exactly 1 to occurrence_count, sets last_seen, keeps the representative *)
(* and first_seen, appends a duplication EvolutionRecord with the          *)
(* representative as parent and confidence 0.95, and returns is_duplicate  *)
(* = true, action = linked_to_existing with the representative id.         *)
(***************************************************************************)
C10_LinkedToExisting ==
    [][\A p \in Procs :
          (CommitStep(p) /\ pc[p] = "dup_evolution")
          => \E r \in content_hashes : \E n \in content_hashes' :
                /\ r.content_hash = call[p].content_hash
                /\ n.content_hash = call[p].content_hash
                /\ n.file_paths =
                      IF call[p].file_path \in PathSet(r.file_paths)
                      THEN r.file_paths
                      ELSE Append(r.file_paths, call[p].file_path)
                /\ n.occurrence_count = r.occurrence_count + 1
                /\ n.last_seen = clock
                /\ n.representative_gene_id = r.representative_gene_id
                /\ n.first_seen = r.first_seen
                /\ \E e \in gene_evolution' \ gene_evolution :
                      /\ gene_evolution' = gene_evolution \cup {e}
                      /\ e.gene_id = call[p].gene_id
                      /\ e.evolution_type = "duplication"
                      /\ e.parent_gene_id = r.representative_gene_id
                      /\ e.confidence_score = 95
                /\ ret'[p].result.is_duplicate = TRUE
                /\ ret'[p].result.action = "linked_to_existing"
                /\ ret'[p].result.representative_gene_id
                      = r.representative_gene_id]_vars

(***************************************************************************)
(* Vocabulary of the query properties.                                     *)
(***************************************************************************)
\* The step is a query of the given kind returning.
Answers(op) == answer' # answer /\ answer'.op = op

\* The only registration committed for fingerprint h is gene_id in file_path.
OnlyRegistered(h, gene_id, file_path) ==
    /\ okCount[h] = 1
    /\ okPairs[h] = {<<gene_id, file_path>>}

\* Pairs of inputs with the same type and name whose contents differ in
\* formatting only.
FormattingPairs == {<<GeneA, GeneA2>>, <<GeneA2, GeneA>>}

(***************************************************************************)
(* C11.  is_duplicate(gene) returns (true, r) exactly when a record exists *)
(* for the gene's fingerprint, r being its representative_gene_id, and     *)
(* (false, null) otherwise: it is false while no registration of the       *)
(* fingerprint has committed and (true, first registered gene id) in every *)
(* state after one has, and an answer of true once returned stays the      *)
(* answer.                                                                 *)
(***************************************************************************)
C11_IsDuplicateIffRecorded ==
    /\ \A g \in Genes :
          /\ is_duplicate(g) =
                IF RowsOf(HashOf(g)) = {}
                THEN <<FALSE, NULL>>
                ELSE <<TRUE, (CHOOSE r \in RowsOf(HashOf(g)) : TRUE)
                                 .representative_gene_id>>
          /\ is_duplicate(g) =
                IF okCount[HashOf(g)] = 0
                THEN <<FALSE, NULL>>
                ELSE <<TRUE, okFirst[HashOf(g)]>>
    /\ (answer.op = "is_duplicate" /\ answer.result[1])
          => is_duplicate(answer.gene_data) = answer.result

\* is_duplicate answered (false, null) for a fragment before its fingerprint
\* was registered, and the fragment, in another formatting, is a duplicate now.
C11_Witness ==
    /\ answer.op = "is_duplicate"
    /\ answer.gene_data = GeneA2
    /\ answer.result = <<FALSE, NULL>>
    /\ is_duplicate(GeneA2) = <<TRUE, "G-2">>
    /\ is_duplicate(GeneB) = <<FALSE, NULL>>

(***************************************************************************)
(* C12.  The queries is_duplicate, get_gene_history and                    *)
(* get_duplication_report are read-only: a step in which one of them       *)
(* returns leaves every ContentHashRecord and every EvolutionRecord, the   *)
(* committed ones and those of an open transaction, unchanged.             *)
(***************************************************************************)
C12_QueriesReadOnly ==
    [][(answer' # answer)
       => /\ content_hashes' = content_hashes
          /\ gene_evolution' = gene_evolution
          /\ tx_hashes' = tx_hashes
          /\ tx_evolution' = tx_evolution]_vars

\* All the history of a gene was read while a registration held its
\* transaction open on a store with two records.
C12_Witness ==
    /\ answer.op = "get_gene_history"
    /\ Len(answer.result) = 2
    /\ writer = Registrar
    /\ content_hashes # {}

(***************************************************************************)
(* C13.  Two genes of the same type and name whose contents differ only in *)
(* formatting have one fingerprint: once the first is registered as G-1 in *)
(* a.js, is_duplicate of the second returns (true, G-1), and the commit of *)
(* the registration of the second as G-2 in b.js leaves the record with    *)
(* occurrence_count = 2 and file_paths = {a.js, b.js}.                     *)
(***************************************************************************)
C13_FormattingIsNoDifference ==
    [][\A pair \in FormattingPairs :
          LET first == pair[1]
              second == pair[2]
          IN  OnlyRegistered(HashOf(first), "G-1", "a.js")
              => /\ (Answers("is_duplicate") /\ answer'.gene_data = second)
                       => answer'.result = <<TRUE, "G-1">>
                 /\ \A p \in Procs :
                       (/\ CommitStep(p)
                        /\ call[p].gene_data = second
                        /\ call[p].gene_id = "G-2"
                        /\ call[p].file_path = "b.js")
                       => \E r \in content_hashes' :
                             /\ r.content_hash = HashOf(second)
                             /\ r.representative_gene_id = "G-1"
                             /\ r.occurrence_count = 2
                             /\ PathSet(r.file_paths) = {"a.js", "b.js"}]_vars

\* The scenario has run: is_duplicate of the reformatted fragment answered
\* (true, G-1), and the fragment has since been registered as G-2 in b.js.
C13_Witness ==
    /\ answer.op = "is_duplicate"
    /\ answer.gene_data = GeneA2
    /\ answer.result = <<TRUE, "G-1">>
    /\ okPairs[HashOf(GeneA)] = {<<"G-1", "a.js">>, <<"G-2", "b.js">>}
    /\ \E r \in RowsOf(HashOf(GeneA)) :
          /\ r.occurrence_count = 2
          /\ r.file_paths = <<"a.js", "b.js">>
    /\ GeneA.content # GeneA2.content

(***************************************************************************)
(* C19.  get_gene_history(gene_id) returns exactly the EvolutionRecords    *)
(* whose gene_id or parent_gene_id is the argument, in ascending timestamp *)
(* order; for a representative gene this is its creation record followed   *)
(* by every duplication record that cites it as parent.                    *)
(***************************************************************************)
C19_HistoryIsLineage ==
    [][\A id \in GeneIds :
          (Answers("get_gene_history") /\ answer'.gene_id = id)
          => LET rows == answer'.rows
             IN  /\ {rows[i] : i \in DOMAIN rows} =
                       {e \in gene_evolution :
                           e.gene_id = id \/ e.parent_gene_id = id}
                 /\ Len(rows) = Cardinality({rows[i] : i \in DOMAIN rows})
                 /\ \A i \in DOMAIN rows : \A j \in DOMAIN rows :
                       i < j => rows[i].timestamp <= rows[j].timestamp
                 /\ answer'.result =
                       [i \in DOMAIN rows |-> HistoryEntry(rows[i])]
                 /\ (\E r \in content_hashes : r.representative_gene_id = id)
                       => /\ Len(rows) >= 1
                          /\ rows[1].gene_id = id
                          /\ rows[1].evolution_type = "creation"
                          /\ \A i \in 2..Len(rows) :
                                /\ rows[i].evolution_type = "duplication"
                                /\ rows[i].parent_gene_id = id]_vars

(***************************************************************************)
(* Vocabulary of the classifier properties.                                *)
(***************************************************************************)
\* What the fingerprint is a digest of, component by component.
Triple(gene) == <<_normalize_content(gene.content), gene.type, Lower(gene.name)>>

\* Two fractions are the same number.
Same(x, y) == x.num * y.den = y.num * x.den

\* detect_mutations has returned.
Classified == analysis # Nothing

\* Size of the intersection and of the union of the two sets of words.
Shared == Cardinality(WordSet(old_gene.content) \cap WordSet(new_gene.content))
Joint == Cardinality(WordSet(old_gene.content) \cup WordSet(new_gene.content))

(***************************************************************************)
(* C14.  The digest taken as injective, two genes have the same            *)
(* fingerprint if and only if their triples (normalized content, type,     *)
(* lower-cased name) are equal, also when a component holds the separator  *)
(* "::".                                                                   *)
(***************************************************************************)
C14_FingerprintIsTriple ==
    fingerprint # Nothing
    => ((fingerprint.old = fingerprint.new)
            <=> (Triple(old_gene) = Triple(new_gene)))

(***************************************************************************)
(* C15.  For two genes of different fingerprints detect_mutations returns  *)
(* mutation with confidence = similarity when similarity > 0.8,            *)
(* major_refactor with confidence = similarity when 0.3 < similarity <=    *)
(* 0.8, and replacement with confidence = 1 - similarity when similarity   *)
(* <= 0.3; word sets that share exactly 4/5 of their union are a           *)
(* major_refactor, and exactly 3/10 a replacement.                         *)
(***************************************************************************)
C15_Thresholds ==
    (Classified /\ fingerprint # Nothing /\ fingerprint.old # fingerprint.new)
    => LET s == analysis.similarity
           c == analysis.confidence
       IN  /\ Joint > 0 => Same(s, [num |-> Shared, den |-> Joint])
           /\ 10 * s.num > 8 * s.den
                 => analysis.type = "mutation" /\ Same(c, s)
           /\ (10 * s.num > 3 * s.den /\ 10 * s.num <= 8 * s.den)
                 => analysis.type = "major_refactor" /\ Same(c, s)
           /\ 10 * s.num <= 3 * s.den
                 => /\ analysis.type = "replacement"
                    /\ Same(c, [num |-> s.den - s.num, den |-> s.den])
           /\ (Joint > 0 /\ 5 * Shared = 4 * Joint)
                 => analysis.type = "major_refactor"
           /\ (Joint > 0 /\ 10 * Shared = 3 * Joint)
                 => analysis.type = "replacement"
           /\ Joint = 0 => Same(s, [num |-> 1, den |-> 1])

\* A pair whose words overlap in exactly 4 of 5 has been classified.
C15_Witness ==
    /\ Classified
    /\ fingerprint # Nothing
    /\ Joint = 5
    /\ Shared = 4
    /\ analysis.type = "major_refactor"

(***************************************************************************)
(* C16.  detect_mutations returns no_change with confidence 1.0 whenever   *)
(* the two fingerprints are equal, and nothing else: no similarity is in   *)
(* the result.                                                             *)
(***************************************************************************)
C16_NoChangeOnEqualFingerprints ==
    (Classified /\ fingerprint # Nothing /\ fingerprint.old = fingerprint.new)
    => analysis = [type |-> "no_change", confidence |-> [num |-> 1, den |-> 1]]

\* Two fragments that differ in formatting and in the case of the name have
\* been classified as no_change.
C16_Witness ==
    /\ Classified
    /\ fingerprint # Nothing
    /\ fingerprint.old = fingerprint.new
    /\ old_gene.content # new_gene.content
    /\ old_gene.name # new_gene.name
    /\ analysis.type = "no_change"

(***************************************************************************)
(* C17.  Classifying the fragment sum(a,b) against sum(a,b,c=0) yields     *)
(* mutation, with a confidence that is the Jaccard similarity of their     *)
(* sets of words and is greater than 0.8.                                  *)
(***************************************************************************)
C17_SumIsMutation ==
    (Classified /\ old_gene = SumAB /\ new_gene = SumABC)
    => /\ analysis.type = "mutation"
       /\ Same(analysis.confidence, [num |-> Shared, den |-> Joint])
       /\ 10 * analysis.confidence.num > 8 * analysis.confidence.den

(***************************************************************************)
(* C18.  Similarity is symmetric, and detect_mutations(old, new) and       *)
(* detect_mutations(new, old) return the same type and confidence.         *)
(***************************************************************************)
C18_Symmetric ==
    Classified
    => /\ Same(_calculate_similarity(old_gene.content, new_gene.content),
               _calculate_similarity(new_gene.content, old_gene.content))
       /\ detect_mutations(new_gene, old_gene).type = analysis.type
       /\ Same(detect_mutations(new_gene, old_gene).confidence,
               analysis.confidence)

\* A pair whose first fragment has fewer words than its second has been
\* classified.
C18_Witness ==
    /\ Classified
    /\ Cardinality(WordSet(old_gene.content)) = 4
    /\ Cardinality(WordSet(new_gene.content)) = 7
    /\ analysis.type = "major_refactor"

(***************************************************************************)
(* Vocabulary of the reconstruction properties.                            *)
(***************************************************************************)
\* reconstruct_file has returned from a call that reached the database.
Reconstructed == reconstruction # Nothing /\ "version" \in DOMAIN reconstruction

\* The rows the call selected, and the full_file genes among them.
SelectedRows == Selected(genes, reconstruction.file_path, reconstruction.version)
IsGene(r) == r.content.json = "object"
IsFullFile(r) == IsGene(r) /\ r.content.value.type = "full_file"
FullFiles == {r \in SelectedRows : IsFullFile(r)}
MostRecent(S) == {r \in S : \A q \in S : q.created_at <= r.created_at}

(***************************************************************************)
(* C20.  Whenever the genes selected for a path contain a full_file gene,  *)
(* reconstruct_file returns exactly the content of the most recent         *)
(* full_file gene and a gene_count of 1, whatever function genes are older *)
(* or newer than it (the rows walked, those as recent as that gene, being  *)
(* genes: their content deserializes).                                     *)
(***************************************************************************)
C20_FullFileWins ==
    (/\ Reconstructed
     /\ FullFiles # {}
     /\ \A r \in SelectedRows :
           (\E f \in MostRecent(FullFiles) : r.created_at >= f.created_at)
           => IsGene(r))
    => /\ reconstruction.success
       /\ reconstruction.reconstructed_content \in
             {f.content.value.content : f \in MostRecent(FullFiles)}
       /\ reconstruction.gene_count = 1

\* The genes are a function gene at time 1, a full_file gene at time 2 and a
\* function gene at time 3, and reconstruct_file(a.js, latest) has returned.
C20_Witness ==
    /\ Reconstructed
    /\ reconstruction.version = "latest"
    /\ genes = {GeneRow("v1-a", "a.js", 1, FunctionGene("f")),
                GeneRow("v1-b", "a.js", 2, FullFileGene("F")),
                GeneRow("v2-a", "a.js", 3, FunctionGene("g"))}
    /\ reconstruction.success
    /\ reconstruction.reconstructed_content = "F"
    /\ reconstruction.gene_count = 1

(***************************************************************************)
(* C21.  When no gene is recorded for the requested path, or none matches  *)
(* the version filter, reconstruct_file returns a dict with success =      *)
(* false and an error string that ends in the path; it returns no content, *)
(* and in particular never success = true with empty content.              *)
(***************************************************************************)
C21_NotFoundIsStructured ==
    (Reconstructed /\ SelectedRows = {})
    => /\ reconstruction.success = FALSE
       /\ "error" \in DOMAIN reconstruction
       /\ LET error == reconstruction.error
              path == reconstruction.file_path
          IN  /\ Len(error) > Len(path)
              /\ SubSeq(error, Len(error) - Len(path) + 1, Len(error)) = path
       /\ "reconstructed_content" \notin DOMAIN reconstruction

\* a.js has genes, none of them of the version asked for: not found.
C21_Witness ==
    /\ Reconstructed
    /\ reconstruction.file_path = "a.js"
    /\ reconstruction.version = "V1"
    /\ Selected(genes, "a.js", "latest") # {}
    /\ SelectedRows = {}
    /\ reconstruction.success = FALSE

(***************************************************************************)
(* Vocabulary of the report properties.                                    *)
(***************************************************************************)
\* get_duplication_report has returned; the figures of the store it read.
Reported == answer.op = "get_duplication_report"
DuplicatedRecords == {r \in content_hashes : r.occurrence_count > 1}
TotalInstances ==
    SumOver(content_hashes, [r \in content_hashes |-> r.occurrence_count])
DuplicateInstances ==
    SumOver(DuplicatedRecords,
            [r \in DuplicatedRecords |-> r.occurrence_count - 1])

\* |x|
Abs(x) == IF x < 0 THEN 0 - x ELSE x

(***************************************************************************)
(* C22.  The report's total_instances is the sum of all occurrence_counts  *)
(* and its duplicate_instances the sum of occurrence_count - 1 over the    *)
(* records with occurrence_count > 1; efficiency_percentage is 100 when    *)
(* total_instances = 0 and otherwise 100 * (1 - duplicate_instances /      *)
(* total_instances) rounded to two decimals: it is within 0.005 of that    *)
(* value.  (efficiency_percentage is kept in hundredths.)                  *)
(***************************************************************************)
C22_EfficiencyIsRounded ==
    Reported
    => LET summary == answer.result.summary
       IN  /\ summary.total_gene_instances = TotalInstances
           /\ summary.duplicate_instances = DuplicateInstances
           /\ TotalInstances = 0 => summary.efficiency_percentage = 100 * 100
           /\ TotalInstances > 0
                 => 2 * Abs(summary.efficiency_percentage * TotalInstances
                            - 100 * 100 * (TotalInstances - DuplicateInstances))
                       <= TotalInstances

\* C22 as stated: efficiency_percentage is 100 when total_instances = 0 and
\* otherwise exactly 100 * (1 - duplicate_instances / total_instances).
C22_EfficiencyIsExact ==
    Reported
    => LET summary == answer.result.summary
       IN  /\ summary.total_gene_instances = TotalInstances
           /\ summary.duplicate_instances = DuplicateInstances
           /\ TotalInstances = 0 => summary.efficiency_percentage = 100 * 100
           /\ TotalInstances > 0
                 => summary.efficiency_percentage * TotalInstances
                       = 100 * 100 * (TotalInstances - DuplicateInstances)

\* The report of a store of three instances, one of them a duplicate: 66.67.
C22_Witness ==
    /\ Reported
    /\ TotalInstances = 3
    /\ DuplicateInstances = 1
    /\ answer.result.summary.efficiency_percentage = 6667

(***************************************************************************)
(* C23.  top_duplicates has at most 10 entries, each the representative,   *)
(* count and files of a record with occurrence_count > 1, no record twice, *)
(* in non-increasing order of count; no record left out has a count        *)
(* greater than a listed one, and when 10 or fewer records have a count    *)
(* above 1 all of them are listed.                                         *)
(***************************************************************************)
C23_TopDuplicates ==
    Reported
    => LET top == answer.result.top_duplicates
           Listed(r) == \E i \in DOMAIN top :
                            top[i].gene_id = r.representative_gene_id
       IN  /\ Len(top) <= 10
           /\ \A i \in DOMAIN top :
                 /\ top[i].count > 1
                 /\ \E r \in DuplicatedRecords :
                       /\ top[i].gene_id = r.representative_gene_id
                       /\ top[i].count = r.occurrence_count
                       /\ top[i].files = r.file_paths
           /\ \A i \in DOMAIN top : \A j \in DOMAIN top :
                 i < j => /\ top[i].count >= top[j].count
                          /\ top[i].gene_id # top[j].gene_id
           /\ \A r \in DuplicatedRecords :
                 ~Listed(r) => \A i \in DOMAIN top :
                                  r.occurrence_count <= top[i].count
           /\ Cardinality(DuplicatedRecords) <= 10
                 => \A r \in DuplicatedRecords : Listed(r)

\* Eleven records have a count above 1, the two smallest counts are equal:
\* ten are listed, and the one left out has the count of the last listed.
C23_Witness ==
    /\ Reported
    /\ Cardinality(DuplicatedRecords) = 11
    /\ Len(answer.result.top_duplicates) = 10
    /\ \E r \in DuplicatedRecords :
          /\ \A i \in DOMAIN answer.result.top_duplicates :
                answer.result.top_duplicates[i].gene_id
                    # r.representative_gene_id
          /\ r.occurrence_count = answer.result.top_duplicates[10].count

(***************************************************************************)
(* Vocabulary of the recommendation properties.                            *)
(***************************************************************************)
\* A list of recommendations has been returned, by the report or by
\* _generate_recommendations itself; the efficiency and the number of
\* duplicated contents it was built from.
Recommended == answer.op \in {"get_duplication_report", "_generate_recommendations"}
Recommendations ==
    IF Reported THEN answer.result.recommendation ELSE answer.result
GivenEfficiency ==
    IF ~Reported THEN answer.efficiency
    ELSE IF TotalInstances = 0 THEN [num |-> 100, den |-> 1]
    ELSE [num |-> 100 * (TotalInstances - DuplicateInstances),
          den |-> TotalInstances]
GivenDuplicated ==
    IF Reported THEN Cardinality(DuplicatedRecords)
    ELSE answer.duplicated_contents
Flagged(rule) ==
    \E i \in DOMAIN Recommendations : Recommendations[i].rule = rule
RuleOrder ==
    [high_duplication |-> 1, shared_utilities |-> 2, well_optimized |-> 3,
     efficiency |-> 4]

(***************************************************************************)
(* C24.  The recommendation list holds the high-duplication flag iff       *)
(* efficiency < 80, the shared-utility flag iff duplicated_contents > 50,  *)
(* the well-optimized flag iff efficiency > 95, in that order, each once,  *)
(* and the numeric efficiency line (the efficiency to one decimal) as its  *)
(* last element; it is never empty and never holds both the                *)
(* high-duplication and the well-optimized flag.                           *)
(***************************************************************************)
C24_RecommendationRules ==
    Recommended
    => LET recs == Recommendations
           e == GivenEfficiency
       IN  /\ Flagged("high_duplication") <=> e.num < 80 * e.den
           /\ Flagged("shared_utilities") <=> GivenDuplicated > 50
           /\ Flagged("well_optimized") <=> e.num > 95 * e.den
           /\ Len(recs) >= 1
           /\ recs[Len(recs)].rule = "efficiency"
           /\ 2 * Abs(recs[Len(recs)].tenths * e.den - 10 * e.num) <= e.den
           /\ \A i \in DOMAIN recs : \A j \in DOMAIN recs :
                 i < j => RuleOrder[recs[i].rule] < RuleOrder[recs[j].rule]
           /\ ~(Flagged("high_duplication") /\ Flagged("well_optimized"))

\* The report of a store with 51 duplicated contents and an efficiency of
\* 3.8%: high duplication, then shared utilities, then the numeric line.
C24_Witness ==
    /\ Reported
    /\ GivenDuplicated = 51
    /\ Len(Recommendations) = 3
    /\ Recommendations[1].rule = "high_duplication"
    /\ Recommendations[2].rule = "shared_utilities"
    /\ Recommendations[3] = [rule |-> "efficiency", tenths |-> 38]

(***************************************************************************)
(* C25.  When the metadata of a stored evolution record fails to           *)
(* deserialize, get_gene_history reports a failure in the value it returns *)
(* and does not raise to its caller; no stored record is modified.         *)
(***************************************************************************)
C25_MalformedIsStructuredFailure ==
    [][Answers("get_gene_history")
       => /\ "raised" \notin DOMAIN answer'
          /\ gene_evolution' = gene_evolution
          /\ content_hashes' = content_hashes]_vars

(***************************************************************************)
(* Vocabulary of the command line properties.                              *)
(***************************************************************************)
\* The run has ended.
Exited == exit_status # NotExited
\* The command line lacks the command, or the path the command requires.
MissingArgument ==
    \/ Len(argv) < 2
    \/ Len(argv) = 2 /\ argv[2] \in {"reconstruct", "versions"}
UnknownCommand ==
    Len(argv) >= 2 /\ argv[2] \notin {"reconstruct", "list", "versions"}

(***************************************************************************)
(* C26.  Every run of the script prints one JSON object that has a success *)
(* boolean and, when success is false, an error string; a missing argument *)
(* or an unknown command gives that error payload and an exit status of 0. *)
(***************************************************************************)
C26_CliContract ==
    Exited
    => /\ Len(stdout) = 1
       /\ "success" \in DOMAIN stdout[1]
       /\ stdout[1].success \in BOOLEAN
       /\ ~stdout[1].success => "error" \in DOMAIN stdout[1]
       /\ (MissingArgument \/ UnknownCommand)
             => /\ ~stdout[1].success
                /\ exit_status = 0

(***************************************************************************)
(* Vocabulary of the similarity properties.                                *)
(***************************************************************************)
\* The whitespace-delimited tokens of a text: its maximal runs of characters
\* that are not whitespace.
Tokens(text) ==
    {SubSeq(text, run[1], run[2]) :
        run \in {r \in (1..Len(text)) \X (1..Len(text)) :
                    /\ r[1] <= r[2]
                    /\ \A k \in r[1]..r[2] : Char(text, k) \notin Whitespace
                    /\ r[1] = 1 \/ Char(text, r[1] - 1) \in Whitespace
                    /\ r[2] = Len(text) \/ Char(text, r[2] + 1) \in Whitespace}}
OldTokens == Tokens(_normalize_content(old_gene.content))
NewTokens == Tokens(_normalize_content(new_gene.content))

(***************************************************************************)
(* C27.  The similarity of two contents is |TA \cap TB| / |TA \cup TB| for  *)
(* the sets TA, TB of whitespace-delimited tokens of the normalized        *)
(* contents, 1 when both sets are empty and 0 when exactly one is; it lies *)
(* in [0, 1] and is 1 exactly when TA = TB.  It is the similarity in the   *)
(* dict detect_mutations returns.                                          *)
(***************************************************************************)
C27_JaccardSimilarity ==
    Classified
    => LET s == _calculate_similarity(old_gene.content, new_gene.content)
       IN  /\ "similarity" \in DOMAIN analysis => analysis.similarity = s
           /\ s.den > 0
           /\ (OldTokens \cup NewTokens) # {}
                 => s.num * Cardinality(OldTokens \cup NewTokens)
                       = Cardinality(OldTokens \cap NewTokens) * s.den
           /\ (OldTokens = {} /\ NewTokens = {}) => s.num = s.den
           /\ ((OldTokens = {}) # (NewTokens = {})) => s.num = 0
           /\ 0 <= s.num /\ s.num <= s.den
           /\ (s.num = s.den) <=> (OldTokens = NewTokens)

\* Two fragments without a word, of different names, have been classified:
\* their similarity is 1.
C27_Witness ==
    /\ Classified
    /\ OldTokens = {}
    /\ NewTokens = {}
    /\ "similarity" \in DOMAIN analysis
    /\ analysis.similarity.num = analysis.similarity.den
    /\ analysis.type = "mutation"

(***************************************************************************)
(* Vocabulary of the properties of a reconstruction from function genes.   *)
(***************************************************************************)
IsFunction(r) == IsGene(r) /\ r.content.value.type = "function"
Functions == {r \in SelectedRows : IsFunction(r)}

\* The sequences that hold every gene of S once, no gene before a newer one.
NewestFirst(S) == Orderings(S, [r \in S |-> 0 - r.created_at])

RECURSIVE CodeOf(_)
\* The code of the genes of a sequence, each followed by a blank line.
CodeOf(o) ==
    IF o = <<>> THEN ""
    ELSE Head(o).content.value.code \o "\n\n" \o CodeOf(Tail(o))

(***************************************************************************)
(* C28.  When the genes selected for a path deserialize and none of them   *)
(* is a full_file gene, reconstruct_file returns the code of every         *)
(* function gene, each followed by a blank line, newest first, and a       *)
(* gene_count equal to the number of function genes; genes of other types  *)
(* add nothing to the content and are not counted.                         *)
(***************************************************************************)
C28_FunctionsNewestFirst ==
    (/\ Reconstructed
     /\ SelectedRows # {}
     /\ FullFiles = {}
     /\ \A r \in SelectedRows : IsGene(r))
    => LET functions == Functions
       IN  /\ reconstruction.success
           /\ reconstruction.gene_count = Cardinality(functions)
           /\ \E o \in NewestFirst(functions) :
                 reconstruction.reconstructed_content = CodeOf(o)

\* A function gene at time 1, a class gene at time 2 and a function gene at
\* time 3: the content is the code of the third, then that of the first.
C28_Witness ==
    /\ Reconstructed
    /\ reconstruction.version = "latest"
    /\ genes = {GeneRow("v1-a", "a.js", 1, FunctionGene("f")),
                GeneRow("v1-b", "a.js", 2, ClassGene),
                GeneRow("v2-a", "a.js", 3, FunctionGene("g"))}
    /\ reconstruction.success
    /\ reconstruction.reconstructed_content = "g\n\nf\n\n"
    /\ reconstruction.gene_count = 2

(***************************************************************************)
(* C29.  In a successful result of reconstruct_file the ids in genes_used  *)
(* are the ids of the genes counted in gene_count, those whose content is  *)
(* in the result: there are gene_count of them, each is the id of a        *)
(* function or full_file gene, and no gene older than the full_file gene   *)
(* that ended the walk is listed.                                          *)
(***************************************************************************)
C29_GenesUsedAreCounted ==
    (Reconstructed /\ reconstruction.success)
    => LET genes_used == reconstruction.genes_used
           used == {r \in SelectedRows :
                       \E i \in DOMAIN genes_used : genes_used[i] = r.gene_id}
       IN  /\ Len(genes_used) = reconstruction.gene_count
           /\ \A r \in used : IsFunction(r) \/ IsFullFile(r)
           /\ \A r \in used : \A f \in MostRecent(FullFiles) :
                 r.created_at >= f.created_at

(***************************************************************************)
(* Vocabulary of the ledger properties.                                    *)
(***************************************************************************)
\* The evolution records of a fingerprint, and the creations among them.
LedgerOf(h) == {e \in gene_evolution : e.content_hash = h}
CreationsOf(h) == {e \in LedgerOf(h) : e.evolution_type = "creation"}

(***************************************************************************)
(* C30.  After register calls with pairwise-distinct gene ids the ledger   *)
(* holds, for every ContentHashRecord, exactly occurrence_count records of *)
(* its fingerprint: one creation record, of the representative and with no *)
(* parent, and occurrence_count - 1 duplication records, each with the     *)
(* representative as parent; every evolution record has the fingerprint of *)
(* a ContentHashRecord, and every parent has a creation record.            *)
(***************************************************************************)
C30_LedgerMatchesCounts ==
    /\ \A r \in content_hashes :
          /\ Cardinality(LedgerOf(r.content_hash)) = r.occurrence_count
          /\ Cardinality(CreationsOf(r.content_hash)) = 1
          /\ \A e \in CreationsOf(r.content_hash) :
                /\ e.gene_id = r.representative_gene_id
                /\ e.parent_gene_id = NULL
          /\ \A e \in LedgerOf(r.content_hash) \ CreationsOf(r.content_hash) :
                /\ e.evolution_type = "duplication"
                /\ e.parent_gene_id = r.representative_gene_id
    /\ \A e \in gene_evolution :
          /\ \E r \in content_hashes : r.content_hash = e.content_hash
          /\ e.parent_gene_id # NULL
                => \E c \in gene_evolution :
                      /\ c.gene_id = e.parent_gene_id
                      /\ c.evolution_type = "creation"

\* A fingerprint registered three times, the last two calls started before
\* either had written: one creation record and two duplication records.
C30_Witness ==
    \E r \in content_hashes :
        /\ r.occurrence_count = 3
        /\ Cardinality(LedgerOf(r.content_hash)) = 3
        /\ Cardinality(CreationsOf(r.content_hash)) = 1
        /\ \A p \in Procs :
              /\ ret[p].status = "returned"
              /\ ret[p].result.action = "linked_to_existing"
              /\ ret[p].result.occurrence_count = 2

(***************************************************************************)
(* C31.  The occurrence_count a register call returns on the duplication   *)
(* path is the occurrence_count stored for its fingerprint by the commit   *)
(* of that call, also when duplicate registrations of the fingerprint are  *)
(* interleaved.                                                            *)
(***************************************************************************)
C31_ReturnedCountIsStored ==
    [][\A p \in Procs :
          (CommitStep(p) /\ pc[p] = "dup_evolution")
          => \E r \in content_hashes' :
                /\ r.content_hash = call[p].content_hash
                /\ ret'[p].result.occurrence_count = r.occurrence_count]_vars

(***************************************************************************)
(* Vocabulary of the visibility properties.                                *)
(***************************************************************************)
\* The evolution records of fingerprint h that the step makes visible.
Appearing(h) == {e \in gene_evolution' \ gene_evolution : e.content_hash = h}

OtherHashes(table, h) == {r \in table : r.content_hash # h}
OtherGenes(ledger, gene_id) == {e \in ledger : e.gene_id # gene_id}

(***************************************************************************)
(* C33.  A register call on a gene of fingerprint f changes only the       *)
(* ContentHashRecord of f and only the EvolutionRecord of its gene id: the *)
(* step in which it commits leaves the records of every other fingerprint, *)
(* with all their fields, and the evolution records of every other gene id *)
(* as they were, and no other step of a call changes a record.             *)
(***************************************************************************)
C33_OnlyOwnRecords ==
    [][/\ \A p \in Procs :
             CommitStep(p) =>
                /\ OtherHashes(content_hashes', call[p].content_hash)
                      = OtherHashes(content_hashes, call[p].content_hash)
                /\ OtherGenes(gene_evolution', call[p].gene_id)
                      = OtherGenes(gene_evolution, call[p].gene_id)
       /\ (\A p \in Procs : ~CommitStep(p)) =>
             /\ content_hashes' = content_hashes
             /\ gene_evolution' = gene_evolution]_vars

\* A duplicate of one fingerprint was registered in a store that holds the
\* record of another fingerprint and the evolution record of another gene.
C33_Witness ==
    \E p \in Procs :
        /\ ret[p].status = "returned"
        /\ ret[p].result.action = "linked_to_existing"
        /\ pc[p] = "idle"
        /\ OtherHashes(content_hashes, ret[p].call.content_hash) # {}
        /\ OtherGenes(gene_evolution, ret[p].call.gene_id) # {}
        /\ \E r \in RowsOf(ret[p].call.content_hash) : r.occurrence_count = 2

(***************************************************************************)
(* C34.  The figures of a report satisfy total_instances -                 *)
(* duplicate_instances = unique_contents, duplicated_contents <=           *)
(* unique_contents and duplicated_contents <= duplicate_instances; there   *)
(* is no duplicate instance exactly when there is no duplicated content,   *)
(* and then efficiency_percentage is 100; in a store that is not empty     *)
(* some instance is not a duplicate, and efficiency_percentage, a value    *)
(* rounded to two decimals, lies in 0..100.  (efficiency_percentage is     *)
(* kept in hundredths.)                                                    *)
(***************************************************************************)
C34_FiguresAreConsistent ==
    Reported
    => LET summary == answer.result.summary
       IN  /\ summary.total_gene_instances - summary.duplicate_instances
                 = summary.unique_contents
           /\ summary.duplicated_contents <= summary.unique_contents
           /\ summary.duplicated_contents <= summary.duplicate_instances
           /\ summary.duplicate_instances = 0 <=> summary.duplicated_contents = 0
           /\ summary.duplicated_contents = 0
                 => summary.efficiency_percentage = 100 * 100
           /\ summary.unique_contents > 0
                 => summary.total_gene_instances > summary.duplicate_instances
           /\ summary.efficiency_percentage \in 0..(100 * 100)

\* C34 as stated: efficiency_percentage is 100 exactly when no content is
\* duplicated, and is greater than 0 when the store is not empty.
C34_EfficiencyIsPositive ==
    Reported
    => LET summary == answer.result.summary
       IN  /\ summary.total_gene_instances - summary.duplicate_instances
                 = summary.unique_contents
           /\ summary.duplicated_contents <= summary.unique_contents
           /\ summary.duplicated_contents <= summary.duplicate_instances
           /\ summary.efficiency_percentage = 100 * 100
                 <=> summary.duplicated_contents = 0
           /\ summary.unique_contents > 0 => summary.efficiency_percentage > 0

\* The report of a store whose one fragment was registered 20001 times:
\* 100 / 20001 is reported as 0.0.
C34_Witness ==
    /\ Reported
    /\ answer.result.summary.unique_contents = 1
    /\ answer.result.summary.total_gene_instances = 20001
    /\ answer.result.summary.duplicate_instances = 20000
    /\ answer.result.summary.efficiency_percentage = 0

(***************************************************************************)
(* C35.  The confidence detect_mutations returns lies in [0, 1]: above 0.8 *)
(* for mutation, above 0.3 and at most 0.8 for major_refactor, at least    *)
(* 0.7 for replacement; it returns no_change only for two genes of equal   *)
(* content hash, and two genes with the same set of tokens that differ in  *)
(* normalized content (the order of the tokens), type or lower-cased name  *)
(* are classified as mutation with similarity 1.0, not as no_change.       *)
(***************************************************************************)
C35_ConfidenceAndNoChange ==
    Classified
    => /\ analysis.confidence.den > 0
       /\ analysis.confidence.num \in 0..analysis.confidence.den
       /\ analysis.type = "mutation"
             => Less(Ratio(8, 10), analysis.confidence)
       /\ analysis.type = "major_refactor"
             => /\ Less(Ratio(3, 10), analysis.confidence)
                /\ ~Less(Ratio(8, 10), analysis.confidence)
       /\ analysis.type = "replacement"
             => ~Less(analysis.confidence, Ratio(7, 10))
       /\ analysis.type = "no_change"
             => calculate_content_hash(old_gene.content, old_gene.type, old_gene.name)
                  = calculate_content_hash(new_gene.content, new_gene.type, new_gene.name)
       /\ (OldTokens = NewTokens /\ Triple(old_gene) # Triple(new_gene))
             => /\ analysis.type = "mutation"
                /\ Same(analysis.similarity, Ratio(1, 1))

====
